---------------------------- MODULE Spec2Model ----------------------------
(***************************************************************************)
(* Smart-Shopper: the data layer (IndexedDB tables, localStorage keys and  *)
(* the pinia stores that mirror them) and the backup composable            *)
(* (exportBackup / validateBackup / importBackup).                         *)
(*                                                                         *)
(* Representation.                                                         *)
(*  - A JavaScript string that the code converts (lower-casing, trimming,  *)
(*    whitespace replacement, startsWith) is a sequence of one-character   *)
(*    strings; a string that is only stored and compared is a TLA+ string. *)
(*  - uuidv4() is the counter nextId; Date.now() is the clock now, which   *)
(*    may or may not have advanced between two reads.                      *)
(*  - An IndexedDB table is a set of records, read back in primary-key     *)
(*    order (ToArray...).  A pinia ref holding an array is a sequence.     *)
(*  - A backup object returned by exportBackup holds the store's own       *)
(*    arrays and objects (no copy is made): alias records which of its     *)
(*    arrays / objects are still the ones the stores mutate in place.      *)
(*  - Timestamps (createdAt, updatedAt, addedAt, lastUsed, learnedAt),     *)
(*    icons, units, notes and item barcodes are not represented;           *)
(*    completedAt is represented by whether it is set.                     *)
(***************************************************************************)
EXTENDS Integers, Sequences, FiniteSets, TLC

(***************************************************************************)
(* Bounds of the model.                                                    *)
(***************************************************************************)
MaxOps == 3        \* user operations before the first import
MaxId == 12        \* uuids handed out
MaxNow == 2        \* clock readings
MaxImports == 2    \* importBackup calls in one behaviour
MaxReloads == 1    \* page reloads in one behaviour
MaxExports == 1    \* exportBackup / downloadBackup calls in one behaviour
MaxValidations == 1  \* direct validateBackup calls in one behaviour

(***************************************************************************)
(* Strings as character sequences.                                         *)
(***************************************************************************)
Upper == <<"A","B","C","D","E","F","G","H","I","J","K","L","M",
           "N","O","P","Q","R","S","T","U","V","W","X","Y","Z">>
Lower == <<"a","b","c","d","e","f","g","h","i","j","k","l","m",
           "n","o","p","q","r","s","t","u","v","w","x","y","z">>
Digit == <<"0","1","2","3","4","5","6","7","8","9">>

\* The characters in code-unit order, for string comparison.
Alphabet == <<" ", ".">> \o Digit \o Upper \o <<"_">> \o Lower

Rank(c) == CHOOSE i \in 1..Len(Alphabet) : Alphabet[i] = c

IsSpace(c) == c \in {" ", "\t", "\n"}

LowerChar(c) ==
  IF \E i \in 1..Len(Upper) : Upper[i] = c
  THEN Lower[CHOOSE i \in 1..Len(Upper) : Upper[i] = c]
  ELSE c

\* String.prototype.toLowerCase
ToLowerCase(s) == [i \in 1..Len(s) |-> LowerChar(s[i])]

RECURSIVE TrimStart(_)
TrimStart(s) ==
  IF s # <<>> /\ IsSpace(Head(s)) THEN TrimStart(Tail(s)) ELSE s

RECURSIVE TrimEnd(_)
TrimEnd(s) ==
  IF s # <<>> /\ IsSpace(s[Len(s)]) THEN TrimEnd(SubSeq(s, 1, Len(s) - 1)) ELSE s

\* String.prototype.trim
Trim(s) == TrimEnd(TrimStart(s))

\* s.replace(/\s+/g, '_'): every maximal run of whitespace becomes one "_".
RECURSIVE ReplaceSpaces(_)
ReplaceSpaces(s) ==
  IF s = <<>> THEN <<>>
  ELSE IF IsSpace(Head(s))
       THEN <<"_">> \o ReplaceSpaces(TrimStart(s))
       ELSE <<Head(s)>> \o ReplaceSpaces(Tail(s))

\* String.prototype.startsWith
StartsWith(s, p) == Len(s) >= Len(p) /\ SubSeq(s, 1, Len(p)) = p

\* a < b for strings
RECURSIVE StrLess(_, _)
StrLess(a, b) ==
  IF b = <<>> THEN FALSE
  ELSE IF a = <<>> THEN TRUE
  ELSE IF Head(a) = Head(b) THEN StrLess(Tail(a), Tail(b))
  ELSE Rank(Head(a)) < Rank(Head(b))

\* Array.prototype.join over message parts
RECURSIVE Join(_, _)
Join(parts, sep) ==
  IF parts = <<>> THEN <<>>
  ELSE IF Len(parts) = 1 THEN <<parts[1]>>
  ELSE <<parts[1], sep>> \o Join(Tail(parts), sep)

Max(S) == CHOOSE x \in S : \A y \in S : y <= x

Range(s) == {s[i] : i \in 1..Len(s)}

\* JavaScript null where a category id is expected
Null == <<>>

\* JavaScript undefined in a string-typed optional field
Undefined == "undefined"

EmptyMap == [k \in {} |-> Undefined]

(***************************************************************************)
(* Categories.                                                             *)
(***************************************************************************)
Dairy == <<"d","a","i","r","y">>
Bakery == <<"b","a","k","e","r","y">>
Other == <<"o","t","h","e","r">>

DEFAULT_CATEGORIES ==
  << [id |-> <<"p","r","o","d","u","c","e">>, sortOrder |-> 1],
     [id |-> Dairy, sortOrder |-> 2],
     [id |-> <<"m","e","a","t">>, sortOrder |-> 3],
     [id |-> Bakery, sortOrder |-> 4],
     [id |-> <<"f","r","o","z","e","n">>, sortOrder |-> 5],
     [id |-> <<"p","a","n","t","r","y">>, sortOrder |-> 6],
     [id |-> <<"b","e","v","e","r","a","g","e","s">>, sortOrder |-> 7],
     [id |-> <<"s","n","a","c","k","s">>, sortOrder |-> 8],
     [id |-> <<"h","o","u","s","e","h","o","l","d">>, sortOrder |-> 9],
     [id |-> Other, sortOrder |-> 10] >>

\* `custom_${name.toLowerCase().replace(/\s+/g, '_')}_${Date.now()}`
NewCategoryId(name, t) ==
  <<"c","u","s","t","o","m","_">> \o ReplaceSpaces(ToLowerCase(name))
    \o <<"_", Digit[t + 1]>>

\* Math.max(...allCategories.map(cat => cat.sortOrder || 0), DEFAULT_CATEGORIES.length)
MaxSortOrder(custom) ==
  Max({DEFAULT_CATEGORIES[i].sortOrder : i \in 1..Len(DEFAULT_CATEGORIES)}
      \cup {custom[i].sortOrder : i \in 1..Len(custom)}
      \cup {Len(DEFAULT_CATEGORIES)})

NewCategory(name, t, custom) ==
  [id |-> NewCategoryId(name, t), name |-> name, sortOrder |-> MaxSortOrder(custom) + 1]

(***************************************************************************)
(* Records created by the database layer.                                  *)
(***************************************************************************)
NewList(id, name, color) ==
  [id |-> id, name |-> name, archived |-> FALSE, color |-> color]

NewItem(id, listId, name, category, quantity) ==
  [id |-> id, listId |-> listId, name |-> name, quantity |-> quantity,
   category |-> category, completed |-> FALSE, completedAt |-> FALSE]

NewProduct(barcode, name, category) ==
  [barcode |-> barcode, name |-> name, category |-> category]

\* db.items.update(id, {completed: !item.completed, completedAt: ...})
Toggled(item) ==
  [item EXCEPT !.completed = ~item.completed, !.completedAt = ~item.completed]

\* usePreferencesStore.normalizeItemName
normalizeItemName(name) == Trim(ToLowerCase(name))

(***************************************************************************)
(* Table.toArray(): the rows in primary-key order.                         *)
(***************************************************************************)
RECURSIVE ToArrayById(_)
ToArrayById(S) ==
  IF S = {} THEN <<>>
  ELSE LET m == CHOOSE x \in S : \A y \in S : x.id <= y.id
       IN <<m>> \o ToArrayById(S \ {m})

RECURSIVE ToArrayByStrId(_)
ToArrayByStrId(S) ==
  IF S = {} THEN <<>>
  ELSE LET m == CHOOSE x \in S : \A y \in S : y = x \/ StrLess(x.id, y.id)
       IN <<m>> \o ToArrayByStrId(S \ {m})

RECURSIVE ToArrayByBarcode(_)
ToArrayByBarcode(S) ==
  IF S = {} THEN <<>>
  ELSE LET m == CHOOSE x \in S : \A y \in S : y = x \/ StrLess(x.barcode, y.barcode)
       IN <<m>> \o ToArrayByBarcode(S \ {m})

\* Array.prototype.sort((a, b) => a.sortOrder - b.sortOrder), which is stable
RECURSIVE InsertBySortOrder(_, _)
InsertBySortOrder(c, s) ==
  IF s = <<>> THEN <<c>>
  ELSE IF c.sortOrder < Head(s).sortOrder THEN <<c>> \o s
  ELSE <<Head(s)>> \o InsertBySortOrder(c, Tail(s))

RECURSIVE SortBySortOrder(_)
SortBySortOrder(s) ==
  IF s = <<>> THEN <<>>
  ELSE InsertBySortOrder(s[Len(s)], SortBySortOrder(SubSeq(s, 1, Len(s) - 1)))


(***************************************************************************)
(* Map (a JavaScript Map or a plain object used as one).                   *)
(***************************************************************************)
Put(m, k, v) == [x \in DOMAIN m \cup {k} |-> IF x = k THEN v ELSE m[x]]

Remove(m, k) == [x \in DOMAIN m \ {k} |-> m[x]]

\* map.get(k) || []
GetOrEmpty(m, k) == IF k \in DOMAIN m THEN m[k] ELSE <<>>

(***************************************************************************)
(* State.                                                                  *)
(***************************************************************************)
VARIABLES
  dbLists,               \* db.lists
  dbItems,               \* db.items
  dbCategories,          \* db.categories
  dbProducts,            \* db.products
  dbPreferences,         \* db.categoryPreferences: itemName -> category
  lsCategoryPreferences, \* localStorage 'categoryPreferences'
  lsCategoryOrder,       \* localStorage 'categoryOrder'
  lists,                 \* useListsStore().lists
  items,                 \* useItemsStore().items: listId -> array
  customCategories,      \* useCategoriesStore().customCategories
  categoryOrder,         \* useCategoriesStore().categoryOrder
  products,              \* useProductsStore().products
  preferences,           \* usePreferencesStore().preferences
  nextId,                \* the next uuid
  now,                   \* the last reading of Date.now()
  backupData,            \* the backup object the caller holds / importBackup reads
  alias,                 \* which parts of backupData are the stores' own arrays and objects
  file,                  \* the last downloaded backup file
  imp,                   \* the running importBackup call
  validation,            \* the last validateBackup call (argument, result) and the direct calls so far
  hist,                  \* history: what the current import started from and has created so far
  ops,                   \* user operations so far
  reloads,               \* page reloads so far
  saves,                 \* the saveProduct calls begun: each one's product and position
  scanner                \* the list view's BarcodeScannerModal and its showScanner flag

dbVars == <<dbLists, dbItems, dbCategories, dbProducts, dbPreferences>>
lsVars == <<lsCategoryPreferences, lsCategoryOrder>>
memVars == <<lists, items, customCategories, categoryOrder, products, preferences>>
vars == <<dbLists, dbItems, dbCategories, dbProducts, dbPreferences,
          lsCategoryPreferences, lsCategoryOrder,
          lists, items, customCategories, categoryOrder, products, preferences,
          nextId, now, backupData, alias, file, imp, validation, hist, ops, reloads, saves, scanner>>

(***************************************************************************)
(* Backup objects.                                                         *)
(* kind is the JavaScript type of the candidate itself; version is         *)
(* [type, str, num]; timestamp and the four ...T fields are the JavaScript *)
(* types of those fields, the arrays' elements being in lists, items,      *)
(* customCategories and products.                                          *)
(***************************************************************************)
StringValue(s) == [type |-> "string", str |-> s, num |-> 0]
NumberValue(n) == [type |-> "number", str |-> <<>>, num |-> n]
UndefinedValue == [type |-> "undefined", str |-> <<>>, num |-> 0]

V100 == StringValue(<<"1", ".", "0", ".", "0">>)

EmptyBackup ==
  [origin |-> "none", kind |-> "object", version |-> V100, timestamp |-> "number",
   listsT |-> "array", itemsT |-> "array", customCategoriesT |-> "array",
   productsT |-> "array", lists |-> <<>>, items |-> <<>>,
   customCategories |-> <<>>, products |-> <<>>,
   categoryPreferencesT |-> "object", categoryPreferences |-> EmptyMap,
   categoryOrder |-> <<>>]

NoAlias ==
  [lists |-> FALSE, customCategories |-> FALSE, products |-> FALSE,
   listObjs |-> {}, itemObjs |-> {}]

NoStorage(empty) == [present |-> FALSE, value |-> empty]

IdleImport ==
  [pc |-> "idle", merge |-> FALSE, ids |-> <<>>, ci |-> 1, pi |-> 1, li |-> 1,
   ii |-> 1, listItems |-> <<>>, newList |-> 0, newItem |-> 0, error |-> <<>>]

NoValidation ==
  [data |-> EmptyBackup, calls |-> 0, threw |-> FALSE, valid |-> FALSE,
   errors |-> <<>>]

NoHist ==
  [n |-> 0, exports |-> 0, learned |-> EmptyMap,
   pre |-> [lists |-> {}, items |-> {}, categories |-> {}, products |-> {},
            preferences |-> EmptyMap],
   cur |-> EmptyBackup, newLists |-> <<>>, newCategories |-> 0, newProducts |-> 0,
   newItems |-> 0, failedAt |-> "none",
   changed |-> [n |-> 0, name |-> <<>>, category |-> <<>>], calls |-> <<>>,
   resolved |-> [n |-> 0, name |-> <<>>, preferred |-> <<>>, result |-> <<>>],
   entered |-> [n |-> 0, via |-> "none", names |-> <<>>], saved |-> EmptyMap,
   deleted |-> [n |-> 0, id |-> 0, items |-> 0],
   parsed |-> [n |-> 0, input |-> <<>>, items |-> <<>>],
   scan |-> [n |-> 0, barcode |-> <<>>], recognized |-> {},
   manual |-> [n |-> 0, name |-> <<>>, category |-> <<>>],
   prev |-> [data |-> EmptyBackup, merge |-> FALSE, pc |-> "idle"]]

\* the list view with its modal as they are mounted: the view's listId (0: no
\* list view is open) and showScanner, the modal's barcodeNotRecognized,
\* lastScannedBarcode ('' is Null) and showManualEntry
ClosedScanner ==
  [listId |-> 0, showScanner |-> FALSE, barcodeNotRecognized |-> FALSE,
   lastScannedBarcode |-> Null, showManualEntry |-> FALSE]

Init ==
  /\ dbLists = {} /\ dbItems = {} /\ dbCategories = {} /\ dbProducts = {}
  /\ dbPreferences = EmptyMap
  /\ lsCategoryPreferences = NoStorage(EmptyMap)
  /\ lsCategoryOrder = NoStorage(<<>>)
  /\ lists = <<>> /\ items = EmptyMap /\ customCategories = <<>>
  /\ categoryOrder = <<>> /\ products = <<>> /\ preferences = EmptyMap
  /\ nextId = 1 /\ now = 0
  /\ backupData = EmptyBackup /\ alias = NoAlias /\ file = EmptyBackup
  /\ imp = IdleImport /\ validation = NoValidation /\ hist = NoHist
  /\ ops = 0 /\ reloads = 0 /\ saves = <<>>
  /\ scanner = ClosedScanner


(***************************************************************************)
(* useListsStore (with useListsDB).                                        *)
(***************************************************************************)
ArchivedIn(s, id) ==
  [i \in 1..Len(s) |-> IF s[i].id = id THEN [s[i] EXCEPT !.archived = TRUE] ELSE s[i]]

loadLists ==
  /\ lists' = ToArrayById(dbLists)
  /\ alias' = [alias EXCEPT !.lists = FALSE, !.listObjs = {}]
  /\ UNCHANGED <<dbVars, lsVars, items, customCategories, categoryOrder, products,
                 preferences, nextId, now, backupData>>

createList(name, color) ==
  LET list == NewList(nextId, name, color)
  IN /\ dbLists' = dbLists \cup {list}
     /\ lists' = Append(lists, list)
     /\ nextId' = nextId + 1
     /\ backupData' = IF alias.lists THEN [backupData EXCEPT !.lists = lists']
                      ELSE backupData
     /\ alias' = IF alias.lists THEN [alias EXCEPT !.listObjs = @ \cup {list.id}]
                 ELSE alias
     /\ UNCHANGED <<dbItems, dbCategories, dbProducts, dbPreferences, lsVars, items,
                    customCategories, categoryOrder, products, preferences, now>>

archiveList(id) ==
  /\ dbLists' = {IF l.id = id THEN [l EXCEPT !.archived = TRUE] ELSE l : l \in dbLists}
  /\ lists' = ArchivedIn(lists, id)
  /\ backupData' = IF id \in alias.listObjs
                   THEN [backupData EXCEPT !.lists = ArchivedIn(@, id)]
                   ELSE backupData
  /\ UNCHANGED <<dbItems, dbCategories, dbProducts, dbPreferences, lsVars, items,
                 customCategories, categoryOrder, products, preferences, nextId, now,
                 alias>>

\* a removal that leaves the items of the list behind
deleteListOnly(id) ==
  /\ dbLists' = {l \in dbLists : l.id # id}
  /\ lists' = SelectSeq(lists, LAMBDA l : l.id # id)
  /\ alias' = [alias EXCEPT !.lists = FALSE, !.listObjs = @ \ {id}]
  /\ UNCHANGED <<dbItems, dbCategories, dbProducts, dbPreferences, lsVars, items,
                 customCategories, categoryOrder, products, preferences, nextId, now,
                 backupData>>

deleteList(id) ==
  /\ dbLists' = {l \in dbLists : l.id # id}
  /\ dbItems' = {it \in dbItems : it.listId # id}
  /\ lists' = SelectSeq(lists, LAMBDA l : l.id # id)
  /\ alias' = [alias EXCEPT !.lists = FALSE, !.listObjs = @ \ {id}]
  /\ UNCHANGED <<dbCategories, dbProducts, dbPreferences, lsVars, items,
                 customCategories, categoryOrder, products, preferences, nextId, now,
                 backupData>>

(***************************************************************************)
(* useItemsStore (with useItemsDB).                                        *)
(***************************************************************************)
ItemsOfList(listId) == ToArrayById({it \in dbItems : it.listId = listId})

ToggledIn(s, id) ==
  [i \in 1..Len(s) |-> IF s[i].id = id THEN Toggled(s[i]) ELSE s[i]]

loadItems(listId) ==
  /\ items' = Put(items, listId, ItemsOfList(listId))
  /\ alias' = [alias EXCEPT !.itemObjs =
                 @ \ {it.id : it \in {x \in Range(backupData.items) : x.listId = listId}}]
  /\ UNCHANGED <<dbVars, lsVars, lists, customCategories, categoryOrder, products,
                 preferences, nextId, now, backupData>>

createItem(listId, name, category, quantity) ==
  LET item == NewItem(nextId, listId, name, category, quantity)
  IN /\ dbItems' = dbItems \cup {item}
     /\ items' = Put(items, listId, Append(GetOrEmpty(items, listId), item))
     /\ nextId' = nextId + 1
     /\ UNCHANGED <<dbLists, dbCategories, dbProducts, dbPreferences, lsVars, lists,
                    customCategories, categoryOrder, products, preferences, now,
                    backupData, alias>>

toggleItemComplete(listId, id) ==
  /\ dbItems' = {IF it.id = id THEN Toggled(it) ELSE it : it \in dbItems}
  /\ items' = IF listId \in DOMAIN items
              THEN Put(items, listId, ToggledIn(items[listId], id))
              ELSE items
  /\ backupData' = IF id \in alias.itemObjs
                   THEN [backupData EXCEPT !.items = ToggledIn(@, id)]
                   ELSE backupData
  /\ UNCHANGED <<dbLists, dbCategories, dbProducts, dbPreferences, lsVars, lists,
                 customCategories, categoryOrder, products, preferences, nextId, now,
                 alias>>

(***************************************************************************)
(* useCategoriesStore.                                                     *)
(***************************************************************************)
LoadedCategories == SortBySortOrder(ToArrayByStrId(dbCategories))

LoadedCategoryOrder ==
  IF lsCategoryOrder.present THEN lsCategoryOrder.value ELSE categoryOrder

loadCustomCategories ==
  /\ customCategories' = LoadedCategories
  /\ categoryOrder' = LoadedCategoryOrder
  /\ alias' = [alias EXCEPT !.customCategories = FALSE]
  /\ UNCHANGED <<dbVars, lsVars, lists, items, products, preferences, nextId, now,
                 backupData>>

saveCategoryOrder(newOrder) ==
  /\ categoryOrder' = newOrder
  /\ lsCategoryOrder' = [present |-> TRUE, value |-> newOrder]
  /\ UNCHANGED <<dbVars, lsCategoryPreferences, lists, items, customCategories,
                 products, preferences, nextId, now, backupData, alias>>

\* db.categories.add(category) rejects a primary key the table already holds
CategoryKeyTaken(name, t) == \E c \in dbCategories : c.id = NewCategoryId(name, t)

\* createCategory, with Date.now() reading t, when db.categories.add succeeds
createCategory(name, t) ==
  LET category == NewCategory(name, t, customCategories)
  IN /\ now' = t
     /\ dbCategories' = dbCategories \cup {category}
     /\ customCategories' = Append(customCategories, category)
     /\ backupData' = IF alias.customCategories
                      THEN [backupData EXCEPT !.customCategories = customCategories']
                      ELSE backupData
     /\ UNCHANGED <<dbLists, dbItems, dbProducts, dbPreferences, lsVars, lists, items,
                    categoryOrder, products, preferences, nextId, alias>>

\* createCategory when db.categories.add throws: the error is rethrown
createCategoryThrows(t) ==
  /\ now' = t
  /\ UNCHANGED <<dbVars, lsVars, memVars, nextId, backupData, alias>>

deleteCategory(id) ==
  /\ dbCategories' = {c \in dbCategories : c.id # id}
  /\ customCategories' = SelectSeq(customCategories, LAMBDA c : c.id # id)
  /\ alias' = [alias EXCEPT !.customCategories = FALSE]
  /\ UNCHANGED <<dbLists, dbItems, dbProducts, dbPreferences, lsVars, lists, items,
                 categoryOrder, products, preferences, nextId, now, backupData>>

(***************************************************************************)
(* useProductsStore (with useProductsDB).                                  *)
(***************************************************************************)
loadProducts ==
  /\ products' = ToArrayByBarcode(dbProducts)
  /\ alias' = [alias EXCEPT !.products = FALSE]
  /\ UNCHANGED <<dbVars, lsVars, lists, items, customCategories, categoryOrder,
                 preferences, nextId, now, backupData>>

\* a local update that always pushes
Pushed(s, p) == Append(s, p)

\* products.value[index] = newProduct, or products.value.push(newProduct)
Upserted(s, p) ==
  IF \E i \in 1..Len(s) : s[i].barcode = p.barcode
  THEN LET index == CHOOSE i \in 1..Len(s) :
                      /\ s[i].barcode = p.barcode
                      /\ \A j \in 1..(i - 1) : s[j].barcode # p.barcode
       IN [s EXCEPT ![index] = p]
  ELSE Append(s, p)

saveProduct(barcode, name, category) ==
  LET newProduct == NewProduct(barcode, name, category)
  IN /\ dbProducts' = {p \in dbProducts : p.barcode # barcode} \cup {newProduct}
     /\ products' = Upserted(products, newProduct)
     /\ backupData' = IF alias.products THEN [backupData EXCEPT !.products = products']
                      ELSE backupData
     /\ UNCHANGED <<dbLists, dbItems, dbCategories, dbPreferences, lsVars, lists, items,
                    customCategories, categoryOrder, preferences, nextId, now, alias>>

clearProducts ==
  /\ dbProducts' = {}
  /\ products' = <<>>
  /\ alias' = [alias EXCEPT !.products = FALSE]
  /\ UNCHANGED <<dbLists, dbItems, dbCategories, dbPreferences, lsVars, lists, items,
                 customCategories, categoryOrder, preferences, nextId, now, backupData>>

(***************************************************************************)
(* usePreferencesStore.                                                    *)
(***************************************************************************)
loadPreferences ==
  /\ preferences' = dbPreferences
  /\ UNCHANGED <<dbVars, lsVars, lists, items, customCategories, categoryOrder,
                 products, nextId, now, backupData, alias>>

\* preferences.value.get(normalized) || null
getPreferredCategory(itemName) ==
  IF normalizeItemName(itemName) \in DOMAIN preferences
  THEN preferences[normalizeItemName(itemName)]
  ELSE Null

\* a save that keeps the name as typed
savePreferenceAsTyped(itemName, category) ==
  /\ dbPreferences' = Put(dbPreferences, itemName, category)
  /\ preferences' = Put(preferences, itemName, category)
  /\ UNCHANGED <<dbLists, dbItems, dbCategories, dbProducts, lsVars, lists, items,
                 customCategories, categoryOrder, products, nextId, now, backupData,
                 alias>>

savePreference(itemName, category) ==
  /\ dbPreferences' = Put(dbPreferences, normalizeItemName(itemName), category)
  /\ preferences' = Put(preferences, normalizeItemName(itemName), category)
  /\ UNCHANGED <<dbLists, dbItems, dbCategories, dbProducts, lsVars, lists, items,
                 customCategories, categoryOrder, products, nextId, now, backupData,
                 alias>>

removePreference(itemName) ==
  /\ dbPreferences' = Remove(dbPreferences, normalizeItemName(itemName))
  /\ preferences' = Remove(preferences, normalizeItemName(itemName))
  /\ UNCHANGED <<dbLists, dbItems, dbCategories, dbProducts, lsVars, lists, items,
                 customCategories, categoryOrder, products, nextId, now, backupData,
                 alias>>


(***************************************************************************)
(* useBackup: validateBackup.                                              *)
(***************************************************************************)
Msg(text) == [text |-> text, arg |-> <<>>]

\* a JavaScript value used as a condition
Truthy(v) ==
  CASE v.type = "string" -> v.str # <<>>
    [] v.type = "number" -> v.num # 0
    [] OTHER -> FALSE

ErrorIf(cond, text) == IF cond THEN <<Msg(text)>> ELSE <<>>

ShapeErrors(data) ==
  ErrorIf(~Truthy(data.version), "Missing version field")
  \o ErrorIf(data.timestamp # "number", "Missing or invalid timestamp field")
  \o ErrorIf(data.listsT # "array", "Missing or invalid lists array")
  \o ErrorIf(data.itemsT # "array", "Missing or invalid items array")
  \o ErrorIf(data.customCategoriesT # "array", "Missing or invalid customCategories array")
  \o ErrorIf(data.productsT # "array", "Missing or invalid products array")

\* backup.version.startsWith is not a function unless version is a string
VersionCheckThrows(data) == Truthy(data.version) /\ data.version.type # "string"

VersionErrors(data) ==
  IF Truthy(data.version) /\ ~StartsWith(data.version.str, <<"1", ".">>)
  THEN <<[text |-> "Incompatible backup version: ", arg |-> data.version.str]>>
  ELSE <<>>

validateBackup(data) ==
  IF data.kind # "object"
  THEN [threw |-> FALSE, valid |-> FALSE,
        errors |-> <<Msg("Backup data must be an object")>>]
  ELSE IF VersionCheckThrows(data)
  THEN [threw |-> TRUE, valid |-> FALSE, errors |-> <<>>]
  ELSE LET errors == ShapeErrors(data) \o VersionErrors(data)
       IN [threw |-> FALSE, valid |-> (errors = <<>>), errors |-> errors]

\* new Error(`Invalid backup: ${validation.errors.join(', ')}`)
InvalidBackupError(errors) == <<Msg("Invalid backup: ")>> \o Join(errors, Msg(", "))

TypeErrorThrown == <<Msg("TypeError: backup.version.startsWith is not a function")>>

(***************************************************************************)
(* useBackup: exportBackup.                                                *)
(***************************************************************************)
RECURSIVE AllItems(_)
AllItems(ls) ==
  IF ls = <<>> THEN <<>> ELSE ItemsOfList(Head(ls).id) \o AllItems(Tail(ls))

\* the items map after loadItems(list.id) for every list of ls
LoadedItems(ls) ==
  [k \in DOMAIN items \cup {l.id : l \in Range(ls)} |->
     IF k \in {l.id : l \in Range(ls)} THEN ItemsOfList(k) ELSE items[k]]

ExportedBackup ==
  [origin |-> "export", kind |-> "object", version |-> V100, timestamp |-> "number",
   listsT |-> "array", itemsT |-> "array", customCategoriesT |-> "array",
   productsT |-> "array",
   lists |-> ToArrayById(dbLists),
   items |-> AllItems(ToArrayById(dbLists)),
   customCategories |-> LoadedCategories,
   products |-> ToArrayByBarcode(dbProducts),
   categoryPreferencesT |-> "object",
   categoryPreferences |-> IF lsCategoryPreferences.present
                           THEN lsCategoryPreferences.value ELSE EmptyMap,
   categoryOrder |-> IF lsCategoryOrder.present THEN lsCategoryOrder.value ELSE <<>>]

\* what exportBackup leaves in the stores: everything it loaded
exportLoads ==
  /\ lists' = ToArrayById(dbLists)
  /\ products' = ToArrayByBarcode(dbProducts)
  /\ customCategories' = LoadedCategories
  /\ categoryOrder' = LoadedCategoryOrder
  /\ items' = LoadedItems(ToArrayById(dbLists))
  /\ UNCHANGED <<dbVars, lsVars, preferences, nextId, now>>

\* the returned object holds the stores' arrays and the loaded item objects
exportBackup ==
  /\ exportLoads
  /\ backupData' = ExportedBackup
  /\ alias' = [lists |-> TRUE, customCategories |-> TRUE, products |-> TRUE,
               listObjs |-> {l.id : l \in dbLists},
               itemObjs |-> {it.id : it \in Range(ExportedBackup.items)}]

\* JSON.stringify(backup) written to a file: a copy; the object itself is dropped
downloadBackup ==
  /\ exportLoads
  /\ file' = [ExportedBackup EXCEPT !.origin = "file"]
  /\ alias' = NoAlias
  /\ UNCHANGED backupData


(***************************************************************************)
(* useBackup: importBackup, one step per awaited store call.  imp.pc names *)
(* the call that runs next; ci, pi, li and ii are the positions of the     *)
(* for-of loops over data.customCategories, data.products, data.lists and  *)
(* the list's items.                                                       *)
(***************************************************************************)
Quiet == {"idle", "done", "rejected", "failed"}

Ids(s) == [i \in 1..Len(s) |-> s[i].id]

\* a restoration that saves the products first
ProductsFirstPc(d, ci, pi, li) ==
  IF pi <= Len(d.products) THEN "saveProduct"
  ELSE IF ci <= Len(d.customCategories) THEN "createCategory"
  ELSE IF li <= Len(d.lists) THEN "createList"
  ELSE "setPreferences"

\* where the restoration continues: the loops read the arrays of d as they are
RestorePc(d, ci, pi, li) ==
  IF ci <= Len(d.customCategories) THEN "createCategory"
  ELSE IF pi <= Len(d.products) THEN "saveProduct"
  ELSE IF li <= Len(d.lists) THEN "createList"
  ELSE "setPreferences"

\* after the replace loop over listsStore.lists
AfterListsPc == "clearProducts"

\* a destructive phase that runs in either mode
AlwaysReplaces(merge) == TRUE

\* if (!merge): the destructive phase runs
Replaces(merge) == ~merge

importBackup(data, merge) ==
  LET v == validateBackup(data)
  IN /\ imp.pc \in Quiet
     /\ hist.n < MaxImports
     /\ validation' = [data |-> data, calls |-> validation.calls] @@ v
     /\ backupData' = data
     /\ alias' = IF data.origin = "export" THEN alias ELSE NoAlias
     /\ hist' = [n |-> hist.n + 1, exports |-> hist.exports, learned |-> hist.learned,
                 pre |-> [lists |-> dbLists, items |-> dbItems,
                          categories |-> dbCategories, products |-> dbProducts,
                          preferences |-> dbPreferences],
                 cur |-> data, newLists |-> <<>>, newCategories |-> 0,
                 newProducts |-> 0, newItems |-> 0, failedAt |-> "none",
                 prev |-> [data |-> hist.cur, merge |-> imp.merge, pc |-> imp.pc]]
     /\ imp' = IF v.threw
               THEN [IdleImport EXCEPT !.pc = "rejected", !.merge = merge,
                                       !.error = TypeErrorThrown]
               ELSE IF ~v.valid
               THEN [IdleImport EXCEPT !.pc = "rejected", !.merge = merge,
                                       !.error = InvalidBackupError(v.errors)]
               ELSE IF ~Replaces(merge)
               THEN [IdleImport EXCEPT !.pc = RestorePc(data, 1, 1, 1), !.merge = merge]
               ELSE [IdleImport EXCEPT
                       !.pc = IF lists = <<>> THEN AfterListsPc ELSE "deleteList",
                       !.merge = merge, !.ids = Ids(lists)]
     /\ UNCHANGED <<dbVars, lsVars, memVars, nextId, now, file, ops, reloads, saves, scanner>>

ImportFrame == UNCHANGED <<file, validation, ops, reloads, saves, scanner>>

ImportDeleteList ==
  /\ imp.pc = "deleteList"
  /\ deleteList(Head(imp.ids))
  /\ imp' = [imp EXCEPT !.ids = Tail(@),
                        !.pc = IF Tail(imp.ids) = <<>> THEN AfterListsPc ELSE "deleteList"]
  /\ UNCHANGED hist
  /\ ImportFrame

ImportClearProducts ==
  /\ imp.pc = "clearProducts"
  /\ clearProducts
  /\ imp' = [imp EXCEPT !.ids = Ids(customCategories),
                        !.pc = IF customCategories = <<>>
                               THEN RestorePc(backupData, 1, 1, 1)
                               ELSE "deleteCategory"]
  /\ UNCHANGED hist
  /\ ImportFrame

ImportDeleteCategory ==
  /\ imp.pc = "deleteCategory"
  /\ deleteCategory(Head(imp.ids))
  /\ imp' = [imp EXCEPT !.ids = Tail(@),
                        !.pc = IF Tail(imp.ids) = <<>>
                               THEN RestorePc(backupData, 1, 1, 1)
                               ELSE "deleteCategory"]
  /\ UNCHANGED hist
  /\ ImportFrame

\* what db.categories.add rejects with when the key exists
ConstraintError == <<Msg("ConstraintError: Key already exists in the object store")>>

\* Date.now() inside createCategory reads the clock, which may have advanced
ImportCreateCategory ==
  /\ imp.pc = "createCategory"
  /\ \E t \in {now, now + 1} :
       /\ t <= MaxNow
       /\ LET name == backupData.customCategories[imp.ci].name
          IN IF CategoryKeyTaken(name, t)
             THEN /\ createCategoryThrows(t)
                  /\ imp' = [imp EXCEPT !.pc = "failed", !.error = ConstraintError]
                  /\ hist' = [hist EXCEPT !.failedAt = "createCategory"]
             ELSE /\ createCategory(name, t)
                  /\ imp' = [imp EXCEPT !.ci = @ + 1,
                               !.pc = RestorePc(backupData', imp.ci + 1, imp.pi, imp.li)]
                  /\ hist' = [hist EXCEPT !.newCategories = @ + 1]
  /\ ImportFrame

ImportSaveProduct ==
  /\ imp.pc = "saveProduct"
  /\ LET product == backupData.products[imp.pi]
     IN saveProduct(product.barcode, product.name, product.category)
  /\ imp' = [imp EXCEPT !.pi = @ + 1,
                        !.pc = RestorePc(backupData', imp.ci, imp.pi + 1, imp.li)]
  /\ hist' = [hist EXCEPT !.newProducts = @ + 1]
  /\ ImportFrame

\* a filter that keeps every item
AllItemsOf(d, listId) == d.items

\* backupData.items.filter((item) => item.listId === list.id)
ListItemsOf(d, listId) == SelectSeq(d.items, LAMBDA item : item.listId = listId)

\* entering the loop over the items of data.lists[li]
ItemsLoop(d, i) ==
  LET listItems == ListItemsOf(d, d.lists[i.li].id)
  IN IF listItems = <<>>
     THEN [i EXCEPT !.listItems = <<>>, !.ii = 1, !.li = @ + 1,
                    !.pc = RestorePc(d, i.ci, i.pi, i.li + 1)]
     ELSE [i EXCEPT !.listItems = listItems, !.ii = 1, !.pc = "createItem"]

\* leaving the body of the loop over the list's items
NextItem(d, i) ==
  IF i.ii < Len(i.listItems)
  THEN [i EXCEPT !.ii = @ + 1, !.pc = "createItem"]
  ELSE [i EXCEPT !.ii = 1, !.listItems = <<>>, !.li = @ + 1,
                 !.pc = RestorePc(d, i.ci, i.pi, i.li + 1)]

ImportCreateList ==
  /\ imp.pc = "createList"
  /\ nextId <= MaxId
  /\ LET list == backupData.lists[imp.li]
     IN /\ createList(list.name, list.color)
        /\ imp' = IF list.archived
                  THEN [imp EXCEPT !.newList = nextId, !.pc = "archiveList"]
                  ELSE ItemsLoop(backupData', [imp EXCEPT !.newList = nextId])
  /\ hist' = [hist EXCEPT !.newLists = Append(@, nextId)]
  /\ ImportFrame

ImportArchiveList ==
  /\ imp.pc = "archiveList"
  /\ archiveList(imp.newList)
  /\ imp' = ItemsLoop(backupData', imp)
  /\ UNCHANGED hist
  /\ ImportFrame

\* createItem(newList.id, item.name, item.category): quantity takes its default
ImportCreateItem ==
  /\ imp.pc = "createItem"
  /\ nextId <= MaxId
  /\ LET item == imp.listItems[imp.ii]
     IN /\ createItem(imp.newList, item.name, item.category, 1)
        /\ imp' = IF item.completed
                  THEN [imp EXCEPT !.newItem = nextId, !.pc = "toggleItemComplete"]
                  ELSE NextItem(backupData', [imp EXCEPT !.newItem = nextId])
  /\ hist' = [hist EXCEPT !.newItems = @ + 1]
  /\ ImportFrame

ImportToggleItemComplete ==
  /\ imp.pc = "toggleItemComplete"
  /\ toggleItemComplete(imp.newList, imp.newItem)
  /\ imp' = NextItem(backupData', imp)
  /\ UNCHANGED hist
  /\ ImportFrame

\* localStorage.setItem('categoryPreferences', ...) when the snapshot has the map
ImportSetPreferences ==
  /\ imp.pc = "setPreferences"
  /\ lsCategoryPreferences' =
       IF backupData.categoryPreferencesT = "object"
       THEN [present |-> TRUE, value |-> backupData.categoryPreferences]
       ELSE lsCategoryPreferences
  /\ imp' = [imp EXCEPT !.pc = "saveCategoryOrder"]
  /\ UNCHANGED <<dbVars, lsCategoryOrder, memVars, nextId, now, backupData, alias, hist>>
  /\ ImportFrame

ImportSaveCategoryOrder ==
  /\ imp.pc = "saveCategoryOrder"
  /\ IF backupData.categoryOrder # <<>>
     THEN saveCategoryOrder(backupData.categoryOrder)
     ELSE UNCHANGED <<dbVars, lsVars, memVars, nextId, now, backupData, alias>>
  /\ imp' = [imp EXCEPT !.pc = "loadLists"]
  /\ UNCHANGED hist
  /\ ImportFrame

ImportLoadLists ==
  /\ imp.pc = "loadLists"
  /\ loadLists
  /\ imp' = [imp EXCEPT !.pc = "loadProducts"]
  /\ UNCHANGED hist
  /\ ImportFrame

ImportLoadProducts ==
  /\ imp.pc = "loadProducts"
  /\ loadProducts
  /\ imp' = [imp EXCEPT !.pc = "loadCustomCategories"]
  /\ UNCHANGED hist
  /\ ImportFrame

ImportLoadCustomCategories ==
  /\ imp.pc = "loadCustomCategories"
  /\ loadCustomCategories
  /\ imp' = [imp EXCEPT !.pc = "done"]
  /\ UNCHANGED hist
  /\ ImportFrame


(***************************************************************************)
(* Persistence failures during importBackup.  A store call whose database  *)
(* write rejects rethrows, and importBackup has no handler around its      *)
(* store calls; the two localStorage writes sit in try / catch blocks that *)
(* log the error.                                                          *)
(***************************************************************************)
StoreCallSteps ==
  {"createCategory", "saveProduct", "createList", "archiveList", "createItem",
   "toggleItemComplete"}

\* what a rejected database write rejects with
DatabaseError == <<Msg("DatabaseClosedError")>>

\* the awaited store call rejects before it has written anything
ImportStoreCallFails ==
  /\ imp.pc \in StoreCallSteps
  /\ imp' = [imp EXCEPT !.pc = "failed", !.error = DatabaseError]
  /\ hist' = [hist EXCEPT !.failedAt = imp.pc]
  /\ UNCHANGED <<dbVars, lsVars, memVars, nextId, now, backupData, alias>>
  /\ ImportFrame

\* localStorage.setItem throws (quota); the catch block logs and goes on
ImportLocalStorageFails ==
  /\ \/ /\ imp.pc = "setPreferences"
        /\ backupData.categoryPreferencesT = "object"
        /\ imp' = [imp EXCEPT !.pc = "saveCategoryOrder"]
        /\ UNCHANGED categoryOrder
     \/ /\ imp.pc = "saveCategoryOrder"
        /\ backupData.categoryOrder # <<>>
        /\ imp' = [imp EXCEPT !.pc = "loadLists"]
        /\ categoryOrder' = backupData.categoryOrder
  /\ hist' = [hist EXCEPT !.failedAt = imp.pc]
  /\ UNCHANGED <<dbVars, lsVars, lists, items, customCategories, products, preferences,
                 nextId, now, backupData, alias>>
  /\ ImportFrame

(***************************************************************************)
(* What the user enters.                                                   *)
(***************************************************************************)
ListNames == {<<"G","r","o","c","e","r","i","e","s">>}
ListColors == {"blue"}
ItemNames == {<<"M","i","l","k">>}
ItemCategories == {Bakery}
Quantities == {1, 2}
CategoryNames == {<<"P","e","t">>}
Barcodes == {<<"8","7","1">>}
ProductNames == {"Oat milk"}
PreferenceNames == {<<"M","i","l","k">>, <<" ","m","i","l","k"," ">>}
PreferenceCategories == {Dairy, Bakery}
CategoryOrders == {<<Bakery, Dairy>>}

UserFrame == UNCHANGED <<file, imp, validation, hist, reloads, saves, scanner>>

UserMay == imp.pc \in Quiet /\ hist.n = 0 /\ ops < MaxOps

CreateList ==
  /\ UserMay /\ nextId <= MaxId
  /\ \E name \in ListNames, color \in ListColors : createList(name, color)
  /\ ops' = ops + 1
  /\ UserFrame

CreateItem ==
  /\ UserMay /\ nextId <= MaxId
  /\ \E list \in Range(lists), name \in ItemNames, category \in ItemCategories,
        quantity \in Quantities :
       createItem(list.id, name, category, quantity)
  /\ ops' = ops + 1
  /\ UserFrame

ToggleItemComplete ==
  /\ UserMay
  /\ \E listId \in DOMAIN items : \E item \in Range(items[listId]) :
       toggleItemComplete(listId, item.id)
  /\ ops' = ops + 1
  /\ UserFrame

ArchiveList ==
  /\ UserMay
  /\ \E list \in Range(lists) : ~list.archived /\ archiveList(list.id)
  /\ ops' = ops + 1
  /\ UserFrame

\* a category name that collides with a stored id is rejected by the table
CreateCategory ==
  /\ UserMay
  /\ \E name \in CategoryNames, t \in {now, now + 1} :
       /\ t <= MaxNow
       /\ IF CategoryKeyTaken(name, t) THEN createCategoryThrows(t)
          ELSE createCategory(name, t)
  /\ ops' = ops + 1
  /\ UserFrame

SaveProduct ==
  /\ UserMay
  /\ \E barcode \in Barcodes, name \in ProductNames, category \in ItemCategories :
       saveProduct(barcode, name, category)
  /\ ops' = ops + 1
  /\ UserFrame

\* hist.learned keeps what the user taught: the latest category per name
SavePreference ==
  /\ UserMay
  /\ \E name \in PreferenceNames, category \in PreferenceCategories :
       /\ savePreference(name, category)
       /\ hist' = [hist EXCEPT !.learned = Put(@, normalizeItemName(name), category)]
  /\ ops' = ops + 1
  /\ UNCHANGED <<file, imp, validation, reloads, saves, scanner>>

SaveCategoryOrder ==
  /\ UserMay
  /\ \E newOrder \in CategoryOrders : saveCategoryOrder(newOrder)
  /\ ops' = ops + 1
  /\ UserFrame

(***************************************************************************)
(* The page: a reload empties every store and drops every object held in   *)
(* memory; the root component and the lists view load their stores when    *)
(* they are mounted.                                                       *)
(***************************************************************************)
Reload ==
  /\ imp.pc \in Quiet
  /\ reloads < MaxReloads
  /\ lists' = <<>> /\ items' = EmptyMap /\ customCategories' = <<>>
  /\ categoryOrder' = <<>> /\ products' = <<>> /\ preferences' = EmptyMap
  /\ backupData' = EmptyBackup /\ alias' = NoAlias
  /\ reloads' = reloads + 1
  /\ UNCHANGED <<dbVars, lsVars, nextId, now, file, imp, validation, hist, ops, saves, scanner>>

\* App.vue onMounted: loadPreferences(), loadCustomCategories()
AppMounted ==
  /\ imp.pc \in Quiet
  /\ preferences' = dbPreferences
  /\ customCategories' = LoadedCategories
  /\ categoryOrder' = LoadedCategoryOrder
  /\ alias' = [alias EXCEPT !.customCategories = FALSE]
  /\ UNCHANGED <<dbVars, lsVars, lists, items, products, nextId, now, backupData,
                 file, imp, validation, hist, ops, reloads, saves, scanner>>

\* ListsView.vue onMounted: loadLists(), then loadItems(list.id) for every list
ListsViewMounted ==
  /\ imp.pc \in Quiet
  /\ lists' = ToArrayById(dbLists)
  /\ items' = LoadedItems(ToArrayById(dbLists))
  /\ alias' = [alias EXCEPT !.lists = FALSE, !.listObjs = {}, !.itemObjs = {}]
  /\ UNCHANGED <<dbVars, lsVars, customCategories, categoryOrder, products,
                 preferences, nextId, now, backupData, file, imp, validation, hist,
                 ops, reloads, saves, scanner>>


(***************************************************************************)
(* Backup files that did not come from this installation: a snapshot of   *)
(* the kind the seed script writes, and candidates of every shape          *)
(* validateBackup tells apart.                                             *)
(***************************************************************************)
SeedListId == 101
SeedItemId == 102

Seed ==
  [origin |-> "seed", kind |-> "object", version |-> V100, timestamp |-> "number",
   listsT |-> "array", itemsT |-> "array", customCategoriesT |-> "array",
   productsT |-> "array",
   lists |-> <<[NewList(SeedListId, <<"W","e","e","k","l","y">>, "green") EXCEPT !.archived = TRUE]>>,
   items |-> <<Toggled(NewItem(SeedItemId, SeedListId, <<"E","g","g","s">>, Dairy, 2))>>,
   customCategories |-> <<NewCategory(<<"P","e","t">>, 0, <<>>)>>,
   products |-> <<NewProduct(<<"8","7","2">>, "Rye bread", Bakery)>>,
   categoryPreferencesT |-> "object",
   categoryPreferences |-> Put(EmptyMap, <<"e","g","g","s">>, Bakery),
   categoryOrder |-> <<Dairy, Bakery>>]

Versions ==
  {UndefinedValue, StringValue(<<>>), V100, StringValue(<<"1">>),
   StringValue(<<"2", ".", "0", ".", "0">>), StringValue(<<"1", "0", ".", "0">>),
   NumberValue(0), NumberValue(1)}
TimestampTypes == {"number", "undefined", "string"}
ArrayTypes == {"array", "undefined"}

\* an object with the given fields; a field that is an array has the seed's elements
Candidate(version, timestamp, listsT, itemsT, customCategoriesT, productsT) ==
  [Seed EXCEPT
     !.origin = "candidate", !.version = version, !.timestamp = timestamp,
     !.listsT = listsT, !.itemsT = itemsT,
     !.customCategoriesT = customCategoriesT, !.productsT = productsT,
     !.lists = IF listsT = "array" THEN @ ELSE <<>>,
     !.items = IF itemsT = "array" THEN @ ELSE <<>>,
     !.customCategories = IF customCategoriesT = "array" THEN @ ELSE <<>>,
     !.products = IF productsT = "array" THEN @ ELSE <<>>]

\* null, and a string: not objects
NonObject(kind) ==
  [Candidate(UndefinedValue, "undefined", "undefined", "undefined", "undefined",
             "undefined") EXCEPT !.kind = kind]

Candidates ==
  {Candidate(v, ts, l, i, c, p) :
     v \in Versions, ts \in TimestampTypes, l \in ArrayTypes, i \in ArrayTypes,
     c \in ArrayTypes, p \in ArrayTypes}
  \cup {NonObject("null"), NonObject("string")}

(***************************************************************************)
(* The backup composable as the settings page and the tests drive it.      *)
(***************************************************************************)
BackupFrame ==
  /\ hist' = [hist EXCEPT !.exports = @ + 1]
  /\ UNCHANGED <<imp, validation, ops, reloads, saves, scanner>>

ExportBackup ==
  /\ imp.pc \in Quiet
  /\ hist.exports < MaxExports
  /\ exportBackup
  /\ UNCHANGED file
  /\ BackupFrame

DownloadBackup ==
  /\ imp.pc \in Quiet
  /\ hist.exports < MaxExports
  /\ downloadBackup
  /\ BackupFrame

Validate ==
  /\ imp.pc \in Quiet /\ hist.n = 0
  /\ validation.calls < MaxValidations
  /\ \E c \in Candidates :
       validation' = [data |-> c, calls |-> validation.calls + 1] @@ validateBackup(c)
  /\ UNCHANGED <<dbVars, lsVars, memVars, nextId, now, backupData, alias, file, imp,
                 hist, ops, reloads, saves, scanner>>

\* importBackup(backup, options) with the object exportBackup returned
ImportHeld ==
  /\ hist.n = 0
  /\ backupData.origin = "export"
  /\ \E merge \in BOOLEAN : importBackup(backupData, merge)

\* importBackupFromFile with a file downloadBackup wrote
ImportFile ==
  /\ hist.n = 0
  /\ file.origin = "file"
  /\ \E merge \in BOOLEAN : importBackup(file, merge)

ImportSeed == hist.n = 0 /\ \E merge \in BOOLEAN : importBackup(Seed, merge)

\* importBackup with the candidate validateBackup was just called with
ImportCandidate ==
  /\ hist.n = 0
  /\ validation.calls > 0
  /\ \E merge \in BOOLEAN : importBackup(validation.data, merge)

\* the same snapshot, in the same mode, once more
ImportAgain ==
  /\ hist.n > 0
  /\ imp.pc = "done"
  /\ hist.cur.origin = "export" => backupData.origin = "export"
  /\ importBackup(IF hist.cur.origin = "export" THEN backupData ELSE hist.cur,
                  imp.merge)

ImportStep ==
  \/ ImportDeleteList
  \/ ImportClearProducts
  \/ ImportDeleteCategory
  \/ ImportCreateCategory
  \/ ImportSaveProduct
  \/ ImportCreateList
  \/ ImportArchiveList
  \/ ImportCreateItem
  \/ ImportToggleItemComplete
  \/ ImportSetPreferences
  \/ ImportSaveCategoryOrder
  \/ ImportLoadLists
  \/ ImportLoadProducts
  \/ ImportLoadCustomCategories

\* one session, as the tests drive the composable: export, then import
Next ==
  \/ CreateList
  \/ CreateItem
  \/ ToggleItemComplete
  \/ ArchiveList
  \/ CreateCategory
  \/ SaveProduct
  \/ ExportBackup
  \/ ImportHeld
  \/ ImportSeed
  \/ ImportStep

Spec == Init /\ [][Next]_vars

\* backup files across page reloads
NextPage ==
  \/ CreateList
  \/ CreateItem
  \/ CreateCategory
  \/ SaveProduct
  \/ Reload
  \/ AppMounted
  \/ ListsViewMounted
  \/ DownloadBackup
  \/ ImportFile
  \/ ImportSeed
  \/ ImportStep

SpecPage == Init /\ [][NextPage]_vars

\* the same file imported twice
NextTwice ==
  \/ CreateList
  \/ CreateItem
  \/ Reload
  \/ ListsViewMounted
  \/ ImportSeed
  \/ ImportAgain
  \/ ImportStep

SpecTwice == Init /\ [][NextTwice]_vars

\* learned preferences and the category order
NextPrefs ==
  \/ CreateList
  \/ CreateCategory
  \/ SavePreference
  \/ SaveCategoryOrder
  \/ Reload
  \/ AppMounted
  \/ ExportBackup
  \/ ImportHeld
  \/ ImportSeed
  \/ ImportStep

SpecPrefs == Init /\ [][NextPrefs]_vars

\* candidates of every shape
NextValidate ==
  \/ CreateList
  \/ CreateCategory
  \/ Validate
  \/ ImportCandidate
  \/ ImportStep

SpecValidate == Init /\ [][NextValidate]_vars

\* imports during which persistence can fail
NextFail ==
  \/ CreateList
  \/ CreateCategory
  \/ ImportSeed
  \/ ImportStep
  \/ ImportStoreCallFails
  \/ ImportLocalStorageFails

SpecFail == Init /\ [][NextFail]_vars


(***************************************************************************)
(* Properties.                                                             *)
(***************************************************************************)
\* the step that calls importBackup
ImportCalled == hist'.n = hist.n + 1

ReplaceDone == imp.pc = "done" /\ ~imp.merge
MergeDone == imp.pc = "done" /\ imp.merge

\* C1: when importBackup with merge=false on a valid snapshot completes, no
\* list, item, product or custom category persisted before the call remains;
\* the data store holds only what was restored from the snapshot, whatever
\* the in-memory stores held (loaded or not) when the call was made.
C1_ReplaceLeavesOnlyRestored ==
  ReplaceDone =>
    /\ {l.id : l \in dbLists} = Range(hist.newLists)
    /\ \A it \in dbItems : it.listId \in Range(hist.newLists)
    /\ dbProducts \subseteq
         {NewProduct(p.barcode, p.name, p.category) : p \in Range(hist.cur.products)}
    /\ Cardinality(dbCategories) <= Len(hist.cur.customCategories)
    /\ \A c \in dbCategories : \E q \in Range(hist.cur.customCategories) : q.name = c.name

\* a replace import has completed although the lists store was not loaded
C1_UnloadedReplaceDone ==
  /\ ReplaceDone
  /\ \E l \in hist.pre.lists : l \in dbLists

\* C2: importBackup on a snapshot that validateBackup does not find valid
\* rejects with an error whose message is the validation errors joined
\* together, and changes nothing: lists, items, products, custom categories,
\* preferences and category order are as before, with merge=false and with
\* merge=true.
C2_InvalidRejectedUnchanged ==
  [][(ImportCalled /\ ~validation'.valid) =>
       /\ imp'.pc = "rejected"
       /\ imp'.error = InvalidBackupError(validation'.errors)
       /\ validation'.errors # <<>>
       /\ UNCHANGED <<dbVars, lsVars, memVars>>]_vars

\* the checks of validateBackup
Checks ==
  {"version", "timestamp", "lists", "items", "customCategories", "products",
   "compatible"}

\* candidate d violates check k; compatibility is that of a version string
Violates(d, k) ==
  CASE k = "version" -> ~Truthy(d.version)
    [] k = "timestamp" -> d.timestamp # "number"
    [] k = "lists" -> d.listsT # "array"
    [] k = "items" -> d.itemsT # "array"
    [] k = "customCategories" -> d.customCategoriesT # "array"
    [] k = "products" -> d.productsT # "array"
    [] k = "compatible" -> /\ d.version.type = "string"
                           /\ d.version.str # <<>>
                           /\ ~StartsWith(d.version.str, <<"1", ".">>)

OnlyVersion100 ==
  Candidate(V100, "undefined", "undefined", "undefined", "undefined", "undefined")

\* C10: validateBackup accumulates: for every non-null object candidate,
\* errors holds one distinct message for each check the candidate violates,
\* valid is true exactly when errors is empty, and a candidate that has only
\* version "1.0.0" yields at least 4 distinct errors.
C10_AccumulatesEveryViolation ==
  (validation.calls > 0 /\ validation.data.kind = "object") =>
    /\ ~validation.threw
    /\ Len(validation.errors) = Cardinality({k \in Checks : Violates(validation.data, k)})
    /\ Cardinality(Range(validation.errors)) = Len(validation.errors)
    /\ validation.valid <=> validation.errors = <<>>
    /\ validation.data = OnlyVersion100 => Cardinality(Range(validation.errors)) >= 4


\* what survives of a list, and of an item
ListContent(l) == [name |-> l.name, color |-> l.color, archived |-> l.archived]
ItemContent(it) == [name |-> it.name, category |-> it.category, completed |-> it.completed]

ContentOf(s) == [i \in 1..Len(s) |-> ItemContent(s[i])]
QuantitiesOf(s) == [i \in 1..Len(s) |-> s[i].quantity]

\* the items the snapshot holds for its k-th list
SnapshotItems(k) ==
  SelectSeq(hist.cur.items, LAMBDA x : x.listId = hist.cur.lists[k].id)

\* the persisted list the import created for the k-th list of the snapshot
RestoredList(k) == CHOOSE l \in dbLists : l.id = hist.newLists[k]

\* C3: export followed by a replace import preserves content up to ids: every
\* list of the snapshot has exactly one restored list with its name, color
\* and archived flag, holding exactly one restored item (same name, category
\* and completed flag) for each of its snapshot items; the restored lists and
\* items carry fresh ids.
C3_ReplacePreservesContent ==
  ReplaceDone =>
    /\ Len(hist.newLists) = Len(hist.cur.lists)
    /\ Cardinality(Range(hist.newLists)) = Len(hist.newLists)
    /\ \A k \in 1..Len(hist.newLists) :
         /\ \E l \in dbLists : l.id = hist.newLists[k]
         /\ ListContent(RestoredList(k)) = ListContent(hist.cur.lists[k])
         /\ ContentOf(ItemsOfList(hist.newLists[k]))
              = ContentOf(SnapshotItems(k))
         /\ hist.newLists[k] \notin {l.id : l \in hist.pre.lists}
                                    \cup {l.id : l \in Range(hist.cur.lists)}
         /\ \A it \in dbItems :
              it.listId = hist.newLists[k] =>
                it.id \notin {x.id : x \in hist.pre.items}
                               \cup {x.id : x \in Range(hist.cur.items)}

\* an exported snapshot holding a completed item was restored over its source
C3_ExportRestored ==
  /\ ReplaceDone
  /\ hist.cur.origin = "export"
  /\ hist.pre.lists # {}
  /\ \E it \in Range(hist.cur.items) : it.completed

\* C4: the quantity of every item survives the round trip: after importBackup
\* each restored item has the quantity of the snapshot item it was restored
\* from.
C4_QuantitySurvives ==
  imp.pc = "done" =>
    \A k \in 1..Len(hist.newLists) :
      QuantitiesOf(ItemsOfList(hist.newLists[k]))
        = QuantitiesOf(SnapshotItems(k))


\* C5: importBackup restores the snapshot's preference map into the
\* preference store: after a successful import of a snapshot whose
\* categoryPreferences maps n to c, getPreferredCategory(n), once the
\* preference store holds what loadPreferences reads, returns c.
C5_PreferencesRestored ==
  (imp.pc = "done" /\ preferences = dbPreferences) =>
    \A n \in DOMAIN hist.cur.categoryPreferences :
      getPreferredCategory(n) = hist.cur.categoryPreferences[n]

\* the step in which exportBackup returns its snapshot
ExportReturned == hist'.exports = hist.exports + 1 /\ backupData'.origin = "export"

\* C6: the snapshot exportBackup returns contains the learned preferences:
\* for every savePreference(n, c) not overwritten or removed since, its
\* categoryPreferences maps normalize(n) to c.
C6_ExportHoldsLearned ==
  [][ExportReturned =>
       \A n \in DOMAIN hist.learned :
         /\ n \in DOMAIN backupData'.categoryPreferences
         /\ backupData'.categoryPreferences[n] = hist.learned[n]]_vars


\* the restoration steps, in the order the claim gives them
Stage(pc) ==
  CASE pc = "createCategory" -> 1
    [] pc = "saveProduct" -> 2
    [] pc \in {"createList", "archiveList", "createItem", "toggleItemComplete"} -> 3
    [] pc = "setPreferences" -> 4
    [] pc = "saveCategoryOrder" -> 5
    [] OTHER -> 6

RestoreSteps ==
  {"createCategory", "saveProduct", "createList", "archiveList", "createItem",
   "toggleItemComplete", "setPreferences", "saveCategoryOrder"}

\* what must have happened before the step imp.pc names
StageComplete ==
  /\ imp.pc = "saveProduct" => hist.newCategories = Len(hist.cur.customCategories)
  /\ imp.pc = "createList" =>
       /\ hist.newCategories = Len(hist.cur.customCategories)
       /\ hist.newProducts = Len(hist.cur.products)
  /\ imp.pc = "createItem" =>
       /\ hist.newLists # <<>>
       /\ imp.newList = hist.newLists[Len(hist.newLists)]
       /\ \E l \in dbLists : l.id = imp.newList
  /\ imp.pc = "toggleItemComplete" =>
       \E it \in dbItems : it.id = imp.newItem /\ it.listId = imp.newList /\ ~it.completed
  /\ imp.pc \in {"setPreferences", "saveCategoryOrder"} =>
       /\ Len(hist.newLists) = Len(hist.cur.lists)
       /\ \A k \in 1..Len(hist.newLists) :
            Len(ItemsOfList(hist.newLists[k])) = Len(SnapshotItems(k))
  /\ (imp.pc = "saveCategoryOrder" /\ hist.cur.categoryPreferencesT = "object") =>
       lsCategoryPreferences = [present |-> TRUE, value |-> hist.cur.categoryPreferences]

\* C7: in every run of importBackup the restoration goes in this order: all
\* custom categories are created before any product is saved, all products
\* are saved before any list is created, each list is created before any of
\* its items, an item's completed flag is applied only after the item is
\* created, and the preference map and then the category order are written
\* only after all lists and items have been restored.
C7_RestoreOrder ==
  [][/\ (imp.pc \in RestoreSteps /\ imp'.pc \in RestoreSteps /\ hist'.n = hist.n)
          => Stage(imp.pc) <= Stage(imp'.pc)
     /\ StageComplete']_vars

\* an import with categories, products, a list and a completed item is about
\* to write the category order
C7_AllStagesPassed ==
  /\ imp.pc = "saveCategoryOrder"
  /\ hist.newCategories > 0 /\ hist.newProducts > 0 /\ hist.newItems > 0
  /\ \E it \in Range(hist.cur.items) : it.completed


SnapshotBarcodes == {p.barcode : p \in Range(hist.cur.products)}

\* C8: importBackup with merge=true deletes nothing: every list, item and
\* custom category persisted before the call is still there, unchanged, every
\* product whose barcode the snapshot does not hold is unchanged, and the
\* content of the snapshot has been added when the import completes.
C8_MergeDeletesNothing ==
  (imp.merge /\ imp.pc # "idle") =>
    /\ hist.pre.lists \subseteq dbLists
    /\ hist.pre.items \subseteq dbItems
    /\ hist.pre.categories \subseteq dbCategories
    /\ \A p \in hist.pre.products : p.barcode \notin SnapshotBarcodes => p \in dbProducts
    /\ imp.pc = "done" =>
         /\ Len(hist.newLists) = Len(hist.cur.lists)
         /\ \A k \in 1..Len(hist.newLists) :
              /\ \E l \in dbLists \ hist.pre.lists : l.id = hist.newLists[k]
              /\ ListContent(RestoredList(k)) = ListContent(hist.cur.lists[k])
              /\ ContentOf(ItemsOfList(hist.newLists[k])) = ContentOf(SnapshotItems(k))
         /\ \A p \in Range(hist.cur.products) :
              \E q \in dbProducts :
                q.barcode = p.barcode /\ q.name = p.name /\ q.category = p.category
         /\ Cardinality(dbCategories)
              = Cardinality(hist.pre.categories) + Len(hist.cur.customCategories)
         /\ \A c \in Range(hist.cur.customCategories) :
              \E q \in dbCategories \ hist.pre.categories : q.name = c.name

\* a merge import has completed over persisted lists, items and categories
C8_MergedOverData ==
  /\ MergeDone
  /\ hist.pre.lists # {} /\ hist.pre.items # {} /\ hist.pre.categories # {}
  /\ hist.cur.lists # <<>>

\* the lists with, per list, the set of its items' {name, category, completed}
ListSummary(l, I) ==
  [name |-> l.name, items |-> {ItemContent(it) : it \in {x \in I : x.listId = l.id}}]

\* how many lists of L have each summary
Summary(L, I) ==
  [s \in {ListSummary(l, I) : l \in L} |->
     Cardinality({l \in L : ListSummary(l, I) = s})]

\* C9: replace import is idempotent up to ids: importing the same valid
\* snapshot twice in a row with merge=false leaves the same lists with, per
\* list, the same set of {name, category, completed} item tuples as importing
\* it once.
C9_ReplaceIdempotent ==
  (/\ ReplaceDone
   /\ hist.prev.pc = "done" /\ ~hist.prev.merge /\ hist.prev.data = hist.cur) =>
    Summary(dbLists, dbItems) = Summary(hist.pre.lists, hist.pre.items)


(***************************************************************************)
(* What holds of validation whenever validateBackup returns.               *)
(***************************************************************************)
\* an import of a candidate that validateBackup returns invalid for is
\* rejected with the joined errors and changes nothing
RejectedWhenValidateReturns ==
  [][(ImportCalled /\ ~validation'.valid /\ ~validation'.threw) =>
       /\ imp'.pc = "rejected"
       /\ imp'.error = InvalidBackupError(validation'.errors)
       /\ validation'.errors # <<>>
       /\ UNCHANGED <<dbVars, lsVars, memVars>>]_vars

\* the errors validateBackup returns are one per violated check
AccumulatesWhenValidateReturns ==
  (validation.calls > 0 /\ validation.data.kind = "object" /\ ~validation.threw) =>
    /\ Len(validation.errors) = Cardinality({k \in Checks : Violates(validation.data, k)})
    /\ Cardinality(Range(validation.errors)) = Len(validation.errors)
    /\ validation.valid <=> validation.errors = <<>>
    /\ validation.data = OnlyVersion100 => Cardinality(Range(validation.errors)) >= 4


(***************************************************************************)
(* Version compatibility.                                                  *)
(***************************************************************************)
\* the major component of a version string: what precedes the first "."
RECURSIVE MajorOf(_)
MajorOf(s) ==
  IF s = <<>> \/ Head(s) = "." THEN <<>> ELSE <<Head(s)>> \o MajorOf(Tail(s))

SupportedMajor == <<"1">>

\* the candidate passes every shape check
ShapeOk(d) ==
  \A k \in Checks \ {"compatible"} : ~Violates(d, k)

\* every message a shape check can produce
ShapeMessages == UNION {Range(ShapeErrors(c)) : c \in Candidates}

\* C11: a candidate that satisfies all shape checks is valid exactly when the
\* major component of its version is the supported major version 1; any
\* other major version is rejected with an error naming the incompatible
\* version, a message different from every shape error.
C11_MajorVersionDecides ==
  (validation.calls > 0 /\ validation.data.kind = "object" /\ ShapeOk(validation.data)) =>
    /\ ~validation.threw
    /\ validation.data.version.type = "string"
    /\ validation.valid <=> MajorOf(validation.data.version.str) = SupportedMajor
    /\ ~validation.valid =>
         /\ Len(validation.errors) = 1
         /\ validation.errors[1].arg = validation.data.version.str
         /\ validation.errors[1] \notin ShapeMessages

\* the same for version strings with a minor component
MajorDecidesDottedVersions ==
  (/\ validation.calls > 0 /\ validation.data.kind = "object"
   /\ ShapeOk(validation.data)
   /\ validation.data.version.type = "string"
   /\ \E i \in 1..Len(validation.data.version.str) : validation.data.version.str[i] = ".") =>
    /\ ~validation.threw
    /\ validation.valid <=> MajorOf(validation.data.version.str) = SupportedMajor
    /\ ~validation.valid =>
         /\ Len(validation.errors) = 1
         /\ validation.errors[1].arg = validation.data.version.str
         /\ validation.errors[1] \notin ShapeMessages


(***************************************************************************)
(* The snapshot object after exportBackup has returned.                    *)
(***************************************************************************)
\* what the snapshot object holds
SnapshotContent(d) ==
  [lists |-> d.lists, items |-> d.items, customCategories |-> d.customCategories,
   products |-> d.products]

\* a step taken while the caller holds the object exportBackup returned
HeldAcross ==
  /\ backupData.origin = "export" /\ backupData'.origin = "export"
  /\ hist'.exports = hist.exports

\* C12: the snapshot exportBackup returned is an immutable full copy: no
\* store operation performed after exportBackup returned (createList,
\* deleteList, createCategory, saveProduct, createItem, importBackup) changes
\* the lists, items, customCategories or products the snapshot object holds.
C12_SnapshotImmutable ==
  [][HeldAcross => SnapshotContent(backupData') = SnapshotContent(backupData)]_vars


(***************************************************************************)
(* Failures during restoration.                                            *)
(***************************************************************************)
ValidationFailure(error) == error # <<>> /\ Head(error) = Msg("Invalid backup: ")

\* the import was aborted by an error that is not a validation error
Aborted == imp.pc = "failed" /\ imp.error # <<>> /\ ~ValidationFailure(imp.error)

\* C13: a failure of any persistence step importBackup performs after
\* validation (creating a custom category, saving a product, creating or
\* archiving a list, creating or completing an item, writing the preference
\* map, writing the category order) aborts the import: importBackup rejects,
\* no later restoration step runs, and the error is not a validation error.
C13_FailureAborts ==
  hist.failedAt # "none" => Aborted

\* the same for the store calls alone
StoreCallFailureAborts ==
  hist.failedAt \in StoreCallSteps => Aborted


(***************************************************************************)
(* Changing an item's category: the preference is learned and every item   *)
(* of that name follows.                                                   *)
(***************************************************************************)
MaxEntries == 6    \* user operations in the item-entry specifications

\* useItemsDB.updateByName: db.items.update(item.id, updates) for every item
\* whose name.toLowerCase().trim() equals the normalized name
UpdatedByExactName(S, itemName, category) ==
  {IF it.name = itemName THEN [it EXCEPT !.category = category] ELSE it : it \in S}

UpdatedByName(S, itemName, category) ==
  {IF Trim(ToLowerCase(it.name)) = Trim(ToLowerCase(itemName))
   THEN [it EXCEPT !.category = category]
   ELSE it : it \in S}

\* the in-memory pass of updateItemsByName over one list: Object.assign(item, updates)
AssignedByName(s, itemName, category) ==
  [i \in 1..Len(s) |->
     IF Trim(ToLowerCase(s[i].name)) = Trim(ToLowerCase(itemName))
     THEN [s[i] EXCEPT !.category = category]
     ELSE s[i]]

\* Object.assign changes the item objects themselves, so a backup object that
\* holds the same objects sees the new category
AssignedInSnapshot(s, itemName, category) ==
  [i \in 1..Len(s) |->
     IF s[i].id \in alias.itemObjs
        /\ Trim(ToLowerCase(s[i].name)) = Trim(ToLowerCase(itemName))
     THEN [s[i] EXCEPT !.category = category]
     ELSE s[i]]

\* handleChangeCategory: savePreference(item.name, newCategory), then
\* updateItemsByName(item.name, { category: newCategory })
changeCategory(itemName, newCategory) ==
  /\ dbPreferences' = Put(dbPreferences, normalizeItemName(itemName), newCategory)
  /\ preferences' = Put(preferences, normalizeItemName(itemName), newCategory)
  /\ dbItems' = UpdatedByName(dbItems, itemName, newCategory)
  /\ items' = [l \in DOMAIN items |-> AssignedByName(items[l], itemName, newCategory)]
  /\ backupData' = [backupData EXCEPT
                      !.items = AssignedInSnapshot(@, itemName, newCategory)]
  /\ UNCHANGED <<dbLists, dbCategories, dbProducts, lsVars, lists, customCategories,
                 categoryOrder, products, nextId, now, alias>>

EntryNames == {<<"M","i","l","k">>, <<" ","m","i","l","k"," ">>,
               <<"B","r","e","a","d">>}

EntryMay == imp.pc \in Quiet /\ hist.n = 0 /\ ops < MaxEntries

\* itemsStore.createItem called with a name as it is
AddItem ==
  /\ EntryMay /\ nextId <= MaxId
  /\ \E list \in Range(lists), name \in EntryNames, category \in PreferenceCategories :
       createItem(list.id, name, category, 1)
  /\ ops' = ops + 1
  /\ UserFrame

\* the item is looked up in the loaded items of the list on screen; hist.changed
\* keeps the name and category of the last change
HandleChangeCategory ==
  /\ EntryMay
  /\ \E listId \in DOMAIN items, newCategory \in PreferenceCategories :
       \E item \in Range(items[listId]) :
         /\ changeCategory(item.name, newCategory)
         /\ hist' = [hist EXCEPT
                       !.learned = Put(@, normalizeItemName(item.name), newCategory),
                       !.changed = [n |-> @.n + 1, name |-> item.name,
                                    category |-> newCategory]]
  /\ ops' = ops + 1
  /\ UNCHANGED <<file, imp, validation, reloads, saves, scanner>>

NextFanOut ==
  \/ CreateList
  \/ AddItem
  \/ HandleChangeCategory

SpecFanOut == Init /\ [][NextFanOut]_vars

(***************************************************************************)
(* C14. When handleChangeCategory completes, the preference stored for the *)
(* item's lowercased, trimmed name is the new category, every item of      *)
(* every list whose lowercased, trimmed name equals it has the new         *)
(* category, in the database and in the loaded lists, and every item of    *)
(* another name is as it was.                                              *)
(***************************************************************************)
Normal(s) == Trim(ToLowerCase(s))

FannedOut(S, T, key, category) ==
  /\ \A it \in T : Normal(it.name) = key => it.category = category
  /\ \A it \in T : Normal(it.name) # key => it \in S
  /\ \A it \in S : Normal(it.name) # key => it \in T

C14_ChangeFansOut ==
  [][hist'.changed.n # hist.changed.n =>
       LET key == Normal(hist'.changed.name)
           category == hist'.changed.category
       IN /\ key \in DOMAIN dbPreferences' /\ dbPreferences'[key] = category
          /\ key \in DOMAIN preferences' /\ preferences'[key] = category
          /\ FannedOut(dbItems, dbItems', key, category)
          /\ DOMAIN items' = DOMAIN items
          /\ \A l \in DOMAIN items :
               FannedOut(Range(items[l]), Range(items'[l]), key, category)]_vars

\* a change has fanned out over two lists and two spellings of one name, past an
\* item of another name that kept another category
C14_ChangedInTwoLists ==
  /\ hist.changed.n > 0
  /\ \E a \in dbItems, b \in dbItems :
       /\ a.listId # b.listId /\ a.name # b.name
       /\ Normal(a.name) = Normal(hist.changed.name)
       /\ Normal(b.name) = Normal(hist.changed.name)
       /\ a.category = hist.changed.category /\ b.category = hist.changed.category
  /\ \E c \in dbItems :
       Normal(c.name) # Normal(hist.changed.name) /\ c.category # hist.changed.category

(***************************************************************************)
(* Learning and forgetting preferences.  hist.calls keeps the calls made,  *)
(* in order, as they were made.                                            *)
(***************************************************************************)
MaxCalls == 4      \* savePreference / removePreference calls in one behaviour

CallsMay == imp.pc \in Quiet /\ hist.n = 0 /\ Len(hist.calls) < MaxCalls

LearnPreference ==
  /\ CallsMay
  /\ \E name \in EntryNames, category \in PreferenceCategories :
       /\ savePreference(name, category)
       /\ hist' = [hist EXCEPT
                     !.learned = Put(@, normalizeItemName(name), category),
                     !.calls = Append(@, [op |-> "save", name |-> name,
                                          category |-> category])]
  /\ UNCHANGED <<file, imp, validation, ops, reloads, saves, scanner>>

ForgetPreference ==
  /\ CallsMay
  /\ \E name \in EntryNames :
       /\ removePreference(name)
       /\ hist' = [hist EXCEPT
                     !.learned = Remove(@, normalizeItemName(name)),
                     !.calls = Append(@, [op |-> "remove", name |-> name,
                                          category |-> Null])]
  /\ UNCHANGED <<file, imp, validation, ops, reloads, saves, scanner>>

NextLearn ==
  \/ LearnPreference
  \/ ForgetPreference

SpecLearn == Init /\ [][NextLearn]_vars

(***************************************************************************)
(* C15. After any sequence of savePreference and removePreference calls,   *)
(* getPreferredCategory(x) is the category of the last savePreference      *)
(* whose lowercased, trimmed name is that of x, unless a removePreference  *)
(* of that name came after it, and null when there is none; the store and  *)
(* the table hold one entry per such name and no other.                    *)
(***************************************************************************)
\* what the calls made so far leave for a normalized name
RECURSIVE LastLearned(_, _)
LastLearned(calls, key) ==
  IF calls = <<>> THEN Null
  ELSE LET last == calls[Len(calls)]
       IN IF Normal(last.name) = key
          THEN (IF last.op = "save" THEN last.category ELSE Null)
          ELSE LastLearned(SubSeq(calls, 1, Len(calls) - 1), key)

\* spellings looked up, those used in the calls and others
Spellings == EntryNames \cup {<<"M","I","L","K">>, <<"b","r","e","a","d"," ">>,
                              <<"E","g","g","s">>}

LearnedKeys ==
  {Normal(hist.calls[i].name) : i \in 1..Len(hist.calls)}

C15_LastSaveWins ==
  /\ \A x \in Spellings :
       getPreferredCategory(x) = LastLearned(hist.calls, Normal(x))
  /\ DOMAIN preferences = {k \in LearnedKeys : LastLearned(hist.calls, k) # Null}
  /\ dbPreferences = preferences

\* a name was saved, saved again under another spelling with another category,
\* and a second name was saved and removed
C15_OverwrittenAndRemoved ==
  /\ \E i, j \in 1..Len(hist.calls) :
       /\ i < j
       /\ hist.calls[i].op = "save" /\ hist.calls[j].op = "save"
       /\ hist.calls[i].name # hist.calls[j].name
       /\ Normal(hist.calls[i].name) = Normal(hist.calls[j].name)
       /\ hist.calls[i].category # hist.calls[j].category
       /\ getPreferredCategory(hist.calls[i].name) = hist.calls[j].category
  /\ \E i, j \in 1..Len(hist.calls) :
       /\ i < j
       /\ hist.calls[i].op = "save" /\ hist.calls[j].op = "remove"
       /\ Normal(hist.calls[i].name) = Normal(hist.calls[j].name)
       /\ getPreferredCategory(hist.calls[i].name) = Null

(***************************************************************************)
(* Auto-categorization (utils/categorization).                             *)
(***************************************************************************)
\* the keyword index, in the order Object.entries enumerates it
categoryKeywords ==
  <<
    [category |-> <<"p","r","o","d","u","c","e">>, keywords |-> <<
       <<"t","o","m","a","t","o">>, <<"l","e","t","t","u","c","e">>,
       <<"c","u","c","u","m","b","e","r">>, <<"c","a","r","r","o","t">>,
       <<"p","o","t","a","t","o">>, <<"o","n","i","o","n">>,
       <<"g","a","r","l","i","c">>, <<"a","p","p","l","e">>,
       <<"b","a","n","a","n","a">>, <<"o","r","a","n","g","e">>,
       <<"g","r","a","p","e">>, <<"b","e","r","r","y">>, <<"l","e","m","o","n">>,
       <<"l","i","m","e">>, <<"a","v","o","c","a","d","o">>,
       <<"s","p","i","n","a","c","h">>, <<"b","r","o","c","c","o","l","i">>,
       <<"p","e","p","p","e","r">>, <<"m","u","s","h","r","o","o","m">>,
       <<"s","a","l","a","d">>, <<"f","r","u","i","t">>,
       <<"v","e","g","e","t","a","b","l","e">> >>],
    [category |-> <<"d","a","i","r","y">>, keywords |-> <<
       <<"m","i","l","k">>, <<"c","h","e","e","s","e">>, <<"y","o","g","u","r","t">>,
       <<"b","u","t","t","e","r">>, <<"c","r","e","a","m">>, <<"e","g","g","s">>,
       <<"i","c","e"," ","c","r","e","a","m">>,
       <<"s","o","u","r"," ","c","r","e","a","m">>,
       <<"c","o","t","t","a","g","e"," ","c","h","e","e","s","e">>,
       <<"m","o","z","z","a","r","e","l","l","a">>, <<"c","h","e","d","d","a","r">>,
       <<"p","a","r","m","e","s","a","n">> >>],
    [category |-> <<"m","e","a","t">>, keywords |-> <<
       <<"c","h","i","c","k","e","n">>, <<"b","e","e","f">>, <<"p","o","r","k">>,
       <<"f","i","s","h">>, <<"s","a","l","m","o","n">>, <<"t","u","n","a">>,
       <<"s","h","r","i","m","p">>, <<"t","u","r","k","e","y">>, <<"h","a","m">>,
       <<"b","a","c","o","n">>, <<"s","a","u","s","a","g","e">>,
       <<"s","t","e","a","k">>, <<"g","r","o","u","n","d"," ","b","e","e","f">>,
       <<"l","a","m","b">> >>],
    [category |-> <<"b","a","k","e","r","y">>, keywords |-> <<
       <<"b","r","e","a","d">>, <<"b","a","g","u","e","t","t","e">>,
       <<"r","o","l","l">>, <<"b","a","g","e","l">>,
       <<"c","r","o","i","s","s","a","n","t">>, <<"m","u","f","f","i","n">>,
       <<"c","a","k","e">>, <<"p","a","s","t","r","y">>, <<"d","o","n","u","t">> >>],
    [category |-> <<"f","r","o","z","e","n">>, keywords |-> <<
       <<"f","r","o","z","e","n">>, <<"p","o","p","s","i","c","l","e">>,
       <<"f","r","o","z","e","n"," ","p","i","z","z","a">>,
       <<"f","r","o","z","e","n"," ","v","e","g","e","t","a","b","l","e","s">>,
       <<"f","r","o","z","e","n"," ","m","e","a","l","s">> >>],
    [category |-> <<"p","a","n","t","r","y">>, keywords |-> <<
       <<"p","a","s","t","a">>, <<"r","i","c","e">>, <<"f","l","o","u","r">>,
       <<"s","u","g","a","r">>, <<"s","a","l","t">>, <<"p","e","p","p","e","r">>,
       <<"o","i","l">>, <<"v","i","n","e","g","a","r">>, <<"s","a","u","c","e">>,
       <<"c","a","n">>, <<"j","a","r">>, <<"c","e","r","e","a","l">>,
       <<"o","a","t","m","e","a","l">>, <<"b","e","a","n","s">>, <<"s","o","u","p">>,
       <<"t","o","m","a","t","o"," ","s","a","u","c","e">> >>],
    [category |-> <<"b","e","v","e","r","a","g","e","s">>, keywords |-> <<
       <<"w","a","t","e","r">>, <<"j","u","i","c","e">>, <<"s","o","d","a">>,
       <<"c","o","f","f","e","e">>, <<"t","e","a">>, <<"b","e","e","r">>,
       <<"w","i","n","e">>, <<"d","r","i","n","k">>,
       <<"b","e","v","e","r","a","g","e">>, <<"c","o","l","a">> >>],
    [category |-> <<"s","n","a","c","k","s">>, keywords |-> <<
       <<"c","h","i","p","s">>, <<"c","o","o","k","i","e">>, <<"c","a","n","d","y">>,
       <<"c","h","o","c","o","l","a","t","e">>, <<"p","o","p","c","o","r","n">>,
       <<"c","r","a","c","k","e","r","s">>, <<"n","u","t","s">>,
       <<"p","r","e","t","z","e","l","s">>, <<"s","n","a","c","k">> >>],
    [category |-> <<"h","o","u","s","e","h","o","l","d">>, keywords |-> <<
       <<"s","o","a","p">>, <<"s","h","a","m","p","o","o">>,
       <<"t","o","o","t","h","p","a","s","t","e">>,
       <<"p","a","p","e","r"," ","t","o","w","e","l">>,
       <<"t","o","i","l","e","t"," ","p","a","p","e","r">>,
       <<"d","e","t","e","r","g","e","n","t">>, <<"c","l","e","a","n","e","r">>,
       <<"d","i","s","h"," ","s","o","a","p">>,
       <<"t","r","a","s","h"," ","b","a","g","s">>, <<"t","i","s","s","u","e">> >>]
  >>

\* String.prototype.includes
Includes(s, k) ==
  \E i \in 1..(Len(s) - Len(k) + 1) : SubSeq(s, i, i + Len(k) - 1) = k

HasKeyword(normalized, i) ==
  \E k \in 1..Len(categoryKeywords[i].keywords) :
    Includes(normalized, categoryKeywords[i].keywords[k])

\* a scan that keeps the last category that matches
MatchLast(normalized, i) ==
  LET matching == {j \in i..Len(categoryKeywords) : HasKeyword(normalized, j)}
  IN IF matching = {} THEN Other ELSE categoryKeywords[Max(matching)].category

\* the two loops, from the i-th category on: the first category with a keyword
\* in the name, and 'other' when the loops run out
RECURSIVE MatchFrom(_, _)
MatchFrom(normalized, i) ==
  IF i > Len(categoryKeywords) THEN Other
  ELSE IF HasKeyword(normalized, i) THEN categoryKeywords[i].category
  ELSE MatchFrom(normalized, i + 1)

\* keyword matching first, the preference only for names no keyword matches
categorizeItemByKeywordFirst(itemName, preferredCategory) ==
  IF MatchFrom(Trim(ToLowerCase(itemName)), 1) # Other \/ preferredCategory = <<>>
  THEN MatchFrom(Trim(ToLowerCase(itemName)), 1)
  ELSE preferredCategory

\* `if (preferredCategory)`: null, undefined and the empty string are falsy, and
\* all three are the empty sequence here
categorizeItem(itemName, preferredCategory) ==
  IF preferredCategory # <<>> THEN preferredCategory
  ELSE MatchFrom(Trim(ToLowerCase(itemName)), 1)

\* the names categorizeItem is called with
CategorizeNames ==
  {
    <<"M","i","l","k">>, <<"E","g","g","s">>, <<"I","c","e"," ","C","r","e","a","m">>,
    <<"I","C","E"," ","C","R","E","A","M">>, <<"i","c","e"," ","c","r","e","a","m">>,
    <<"F","r","o","z","e","n"," ","P","i","z","z","a">>,
    <<"F","r","o","z","e","n"," ","V","e","g","e","t","a","b","l","e","s">>,
    <<"P","e","p","p","e","r","s">>,
    <<"B","l","a","c","k"," ","P","e","p","p","e","r">>,
    <<"S","h","a","m","p","o","o">>,
    <<"T","o","m","a","t","o"," ","S","a","u","c","e">>,
    <<"U","n","k","n","o","w","n"," ","I","t","e","m"," ","X","Y","Z">>,
    <<" ","M","I","L","K"," ">>, <<"B","r","e","a","d">>, <<"b","r","e","a","d">>,
    <<"B","R","E","A","D">>, <<"R","i","c","e">>, <<"L","i","c","o","r","i","c","e">>,
    <<"W","a","t","e","r">>, <<"W","a","t","e","r","m","e","l","o","n">>,
    <<"P","o","p","c","o","r","n">>,
    <<"C","a","n","n","e","d"," ","B","e","a","n","s">>, <<>>,
    <<"T","o","i","l","e","t"," ","P","a","p","e","r">>
  }

\* the preferred categories it is called with: none, default ids and a custom id
PreferredCategories ==
  {Null, Dairy, Bakery, Other, <<"f","r","o","z","e","n">>,
   NewCategoryId(<<"P","e","t">>, 1)}

\* hist.resolved keeps the last call and what it returned
Categorize ==
  /\ imp.pc \in Quiet
  /\ \E name \in CategorizeNames, preferred \in PreferredCategories :
       hist' = [hist EXCEPT
                 !.resolved = [n |-> 1, name |-> name, preferred |-> preferred,
                               result |-> categorizeItem(name, preferred)]]
  /\ UNCHANGED <<dbVars, lsVars, memVars, nextId, now, backupData, alias, file, imp,
                 validation, ops, reloads, saves, scanner>>

NextCategorize == Categorize

SpecCategorize == Init /\ [][NextCategorize]_vars

IndexOrder ==
  <<
    <<"p","r","o","d","u","c","e">>, <<"d","a","i","r","y">>, <<"m","e","a","t">>,
    <<"b","a","k","e","r","y">>, <<"f","r","o","z","e","n">>,
    <<"p","a","n","t","r","y">>, <<"b","e","v","e","r","a","g","e","s">>,
    <<"s","n","a","c","k","s">>, <<"h","o","u","s","e","h","o","l","d">>
  >>

KeywordsOf(category) ==
  UNION {Range(categoryKeywords[i].keywords) :
           i \in {j \in 1..Len(categoryKeywords) :
                    categoryKeywords[j].category = category}}

Occurs(k, s) == \E i \in 0..Len(s) : \E j \in i..Len(s) : SubSeq(s, i + 1, j) = k

Matching(name) ==
  {i \in 1..Len(IndexOrder) :
     \E k \in KeywordsOf(IndexOrder[i]) : Occurs(k, ToLowerCase(name))}

FirstInOrder(name) ==
  IF Matching(name) = {} THEN Other
  ELSE IndexOrder[CHOOSE i \in Matching(name) : \A j \in Matching(name) : i <= j]

UpperChar(c) ==
  IF \E i \in 1..Len(Lower) : Lower[i] = c
  THEN Upper[CHOOSE i \in 1..Len(Lower) : Lower[i] = c]
  ELSE c

ToUpperCase(s) == [i \in 1..Len(s) |-> UpperChar(s[i])]

C18_FirstKeywordCategory ==
  (hist.resolved.n > 0 /\ hist.resolved.preferred = Null)
    => /\ hist.resolved.result = FirstInOrder(hist.resolved.name)
       /\ categorizeItem(ToUpperCase(hist.resolved.name), Null) = hist.resolved.result
       /\ categorizeItem(ToLowerCase(hist.resolved.name), Null) = hist.resolved.result

\* "Peppers" has a keyword of produce and of pantry and went to produce
C18_EarlierCategoryWon ==
  /\ hist.resolved.n > 0 /\ hist.resolved.preferred = Null
  /\ hist.resolved.name = <<"P","e","p","p","e","r","s">>
  /\ Cardinality(Matching(hist.resolved.name)) = 2
  /\ hist.resolved.result = <<"p","r","o","d","u","c","e">>

(***************************************************************************)
(* Segmentation (parseItemsFromText, sanitizeItemName).  A pattern is a    *)
(* sequence of parts: words (one of several, letter case ignored), \s+,    *)
(* \d+, or an optional group.  Positions count the characters before them. *)
(***************************************************************************)
Words(alts) == [t |-> "words", alts |-> alts]
Spaces == [t |-> "spaces"]
Digits == [t |-> "digits"]
Optional(pat) == [t |-> "optional", pat |-> pat]

IsWordChar(c) ==
  \/ \E i \in 1..Len(Lower) : Lower[i] = c \/ Upper[i] = c
  \/ \E i \in 1..Len(Digit) : Digit[i] = c
  \/ c = "_"

IsDigit(c) == \E i \in 1..Len(Digit) : Digit[i] = c

\* \b before the character at position p + 1
WordBoundary(s, p) ==
  (p >= 1 /\ IsWordChar(s[p])) # (p < Len(s) /\ IsWordChar(s[p + 1]))

\* the positions a run of one or more characters of a class can end at
RunEnds(s, p, space) ==
  {q \in (p + 1)..Len(s) :
     \A i \in (p + 1)..q : IF space THEN IsSpace(s[i]) ELSE IsDigit(s[i])}

WordEnds(s, p, alts) ==
  {p + Len(w) : w \in {a \in alts : p + Len(a) <= Len(s)
                                   /\ ToLowerCase(SubSeq(s, p + 1, p + Len(a))) = a}}

\* the positions a pattern can end at when it starts at one of the positions P
RECURSIVE Ends(_, _, _)
Ends(s, P, pat) ==
  IF pat = <<>> \/ P = {} THEN P
  ELSE LET part == Head(pat)
           after ==
             IF part.t = "words" THEN UNION {WordEnds(s, p, part.alts) : p \in P}
             ELSE IF part.t = "spaces" THEN UNION {RunEnds(s, p, TRUE) : p \in P}
             ELSE IF part.t = "digits" THEN UNION {RunEnds(s, p, FALSE) : p \in P}
             ELSE P \cup Ends(s, P, part.pat)
       IN Ends(s, after, Tail(pat))

\* s.replace(/\b<pat>/gi, ''), from position p on
RECURSIVE Removed(_, _, _)
Removed(s, p, pat) ==
  IF p >= Len(s) THEN <<>>
  ELSE IF WordBoundary(s, p) /\ Ends(s, {p}, pat) # {}
       THEN Removed(s, Max(Ends(s, {p}, pat)), pat)
       ELSE <<s[p + 1]>> \o Removed(s, p + 1, pat)

Dozen == <<Optional(<<Words({<<"a">>}), Spaces>>), Words({<<"d","o","z","e","n">>}), Spaces>>

Containers ==
  {<<"b","o","t","t","l","e">>, <<"b","o","t","t","l","e","s">>, <<"c","a","n">>, <<"c","a","n","s">>, <<"b","o","x">>, <<"b","o","x","e","s">>, <<"b","a","g">>, <<"b","a","g","s">>, <<"j","a","r">>, <<"j","a","r","s">>}

CountedContainer ==
  <<Digits, Spaces, Words(Containers), Spaces, Words({<<"o","f">>}), Spaces>>

OneContainer ==
  <<Words({<<"a">>, <<"a","n">>, <<"t","h","e">>}), Spaces,
    Words({<<"b","o","t","t","l","e">>, <<"c","a","n">>, <<"b","o","x">>, <<"b","a","g">>, <<"j","a","r">>}), Spaces,
    Words({<<"o","f">>}), Spaces>>

\* the separator /[,\n]|(?:\s+and\s+)/gi at position p: where it ends, or {}
SeparatorEnds(s, p) ==
  IF p < Len(s) /\ s[p + 1] \in {",", "\n"} THEN {p + 1}
  ELSE Ends(s, {p}, <<Spaces, Words({<<"a","n","d">>}), Spaces>>)

\* String.prototype.split on the separator: the pieces of s from position p on,
\* the piece under way being cur
RECURSIVE Split(_, _, _)
Split(s, p, cur) ==
  IF p >= Len(s) THEN <<cur>>
  ELSE IF SeparatorEnds(s, p) # {}
       THEN <<cur>> \o Split(s, Max(SeparatorEnds(s, p)), <<>>)
       ELSE Split(s, p + 1, Append(cur, s[p + 1]))

\* s.replace(/^(<alts>)\s+/gi, '')
StripLeading(s, alts) ==
  LET e == Ends(s, {0}, <<Words(alts), Spaces>>)
  IN IF e = {} THEN s ELSE SubSeq(s, Max(e) + 1, Len(s))

Verbs ==
  {<<"a","d","d">>, <<"g","e","t">>, <<"b","u","y">>, <<"n","e","e","d">>, <<"w","a","n","t">>, <<"p","u","r","c","h","a","s","e">>, <<"p","i","c","k"," ","u","p">>, <<"g","r","a","b">>}

Phrases ==
  {<<"i"," ","n","e","e","d">>, <<"i"," ","w","a","n","t">>, <<"i","'","m"," ","g","e","t","t","i","n","g">>, <<"i","m"," ","g","e","t","t","i","n","g">>, <<"i","'","d"," ","l","i","k","e">>, <<"i","d"," ","l","i","k","e">>}
    \cup {<<"p","l","e","a","s","e"," ","a","d","d">>, <<"p","l","e","a","s","e"," ","g","e","t">>}

Articles == {<<"a">>, <<"a","n">>, <<"t","h","e">>, <<"s","o","m","e">>}

\* the .map step on one piece
Cleaned(item) ==
  StripLeading(StripLeading(StripLeading(Trim(item), Verbs), Phrases), Articles)

\* [...new Set(items)]: the first of equal names stays
RECURSIVE Unique(_)
Unique(names) ==
  IF names = <<>> THEN <<>>
  ELSE LET front == Unique(SubSeq(names, 1, Len(names) - 1))
           last == names[Len(names)]
       IN IF last \in Range(front) THEN front ELSE Append(front, last)

parseItemsFromText(input) ==
  IF Trim(input) = <<>> THEN <<>>
  ELSE LET processedInput ==
             Removed(Removed(Removed(input, 0, Dozen), 0, CountedContainer),
                     0, OneContainer)
           pieces == Split(processedInput, 0, <<>>)
           cleaned == [i \in 1..Len(pieces) |-> Cleaned(pieces[i])]
       IN Unique(SelectSeq(cleaned, LAMBDA item : Len(item) > 0))

\* name.trim().replace(/\s+/g, ' ')
RECURSIVE CollapseSpaces(_)
CollapseSpaces(s) ==
  IF s = <<>> THEN <<>>
  ELSE IF IsSpace(Head(s))
       THEN <<" ">> \o CollapseSpaces(TrimStart(s))
       ELSE <<Head(s)>> \o CollapseSpaces(Tail(s))

sanitizeItemName(name) == CollapseSpaces(Trim(name))

(***************************************************************************)
(* Entering items as text (handleQuickAdd) and by voice (handleVoiceInput).*)
(***************************************************************************)
\* the createItem calls of one handler run: names[i] goes in with categories[i]
EnteredItems(listId, names, categories) ==
  [i \in 1..Len(names) |-> NewItem(nextId + i - 1, listId, names[i], categories[i], 1)]

enterItems(listId, names, categories) ==
  LET entered == EnteredItems(listId, names, categories)
  IN /\ dbItems' = dbItems \cup Range(entered)
     /\ items' = Put(items, listId, GetOrEmpty(items, listId) \o entered)
     /\ nextId' = nextId + Len(entered)
     /\ UNCHANGED <<dbLists, dbCategories, dbProducts, dbPreferences, lsVars, lists,
                    customCategories, categoryOrder, products, preferences, now,
                    backupData, alias>>

\* categorizeItem(sanitized, getPreferredCategory(sanitized))
QuickAddCategory(name) ==
  categorizeItem(sanitizeItemName(name), getPreferredCategory(sanitizeItemName(name)))

\* categorizeItem(sanitized)
VoiceCategory(name) == categorizeItem(sanitizeItemName(name), Null)

handleQuickAdd(listId, text) ==
  LET itemNames == parseItemsFromText(Trim(text))
  IN enterItems(listId,
                [i \in 1..Len(itemNames) |-> sanitizeItemName(itemNames[i])],
                [i \in 1..Len(itemNames) |-> QuickAddCategory(itemNames[i])])

handleVoiceInput(listId, transcript) ==
  LET parsedItems == parseItemsFromText(transcript)
  IN enterItems(listId,
                [i \in 1..Len(parsedItems) |-> sanitizeItemName(parsedItems[i])],
                [i \in 1..Len(parsedItems) |-> VoiceCategory(parsedItems[i])])

EntryTexts == {<<"M","i","l","k">>, <<"a","d","d"," ","m","i","l","k"," ","a","n","d"," ","e","g","g","s">>,
               <<" "," ">>}

\* hist.entered keeps how the last items came in and under which names
QuickAdd ==
  /\ EntryMay /\ nextId + 2 <= MaxId
  /\ \E list \in Range(lists), text \in EntryTexts :
       /\ handleQuickAdd(list.id, text)
       /\ hist' = [hist EXCEPT
                     !.entered = [n |-> @.n + 1, via |-> "text",
                                  names |-> parseItemsFromText(Trim(text))]]
  /\ ops' = ops + 1
  /\ UNCHANGED <<file, imp, validation, reloads, saves, scanner>>

VoiceInput ==
  /\ EntryMay /\ nextId + 2 <= MaxId
  /\ \E list \in Range(lists), transcript \in EntryTexts :
       /\ handleVoiceInput(list.id, transcript)
       /\ hist' = [hist EXCEPT
                     !.entered = [n |-> @.n + 1, via |-> "voice",
                                  names |-> parseItemsFromText(transcript)]]
  /\ ops' = ops + 1
  /\ UNCHANGED <<file, imp, validation, reloads, saves, scanner>>

NextEntry ==
  \/ CreateList
  \/ SavePreference
  \/ QuickAdd
  \/ VoiceInput

SpecEntry == Init /\ [][NextEntry]_vars

(***************************************************************************)
(* C16. An item created from typed quick-add text or from a voice          *)
(* transcript, whose lowercased, trimmed name has a stored preference, is  *)
(* created with the preferred category and not with the keyword category.  *)
(***************************************************************************)
CreatedWithPreference ==
  \A it \in dbItems' \ dbItems :
    Normal(it.name) \in DOMAIN preferences
      => it.category = preferences[Normal(it.name)]

C16_EntryUsesPreference ==
  [][hist'.entered.n # hist.entered.n => CreatedWithPreference]_vars

\* the typed path alone does consult the preferences
QuickAddUsesPreference ==
  [][(hist'.entered.n # hist.entered.n /\ hist'.entered.via = "text")
       => CreatedWithPreference]_vars

(***************************************************************************)
(* The product cache: lookups, lastUsed refreshes and deletions.           *)
(***************************************************************************)
HasBarcode(S, barcode) == \E p \in S : p.barcode = barcode

\* the product a lookup returns: the local one, else the stored one (which the
\* lookup then pushes into the local list)
LookedUp(barcode) ==
  IF HasBarcode(Range(products), barcode)
  THEN products[CHOOSE i \in 1..Len(products) :
                  /\ products[i].barcode = barcode
                  /\ \A j \in 1..(i - 1) : products[j].barcode # barcode]
  ELSE CHOOSE p \in dbProducts : p.barcode = barcode

getProductByBarcode(barcode) ==
  /\ products' = IF ~HasBarcode(Range(products), barcode)
                    /\ HasBarcode(dbProducts, barcode)
                 THEN Append(products, LookedUp(barcode))
                 ELSE products
  /\ backupData' = IF alias.products THEN [backupData EXCEPT !.products = products']
                   ELSE backupData
  /\ UNCHANGED <<dbVars, lsVars, lists, items, customCategories, categoryOrder,
                 preferences, nextId, now, alias>>

\* getProductByBarcode, then save({ ...product, lastUsed }) and replace it locally
updateLastUsed(barcode) ==
  IF HasBarcode(Range(products), barcode) \/ HasBarcode(dbProducts, barcode)
  THEN LET updated == LookedUp(barcode)
       IN /\ dbProducts' = {p \in dbProducts : p.barcode # barcode} \cup {updated}
          /\ products' = Upserted(products, updated)
          /\ backupData' = IF alias.products
                           THEN [backupData EXCEPT !.products = products']
                           ELSE backupData
          /\ UNCHANGED <<dbLists, dbItems, dbCategories, dbPreferences, lsVars, lists,
                         items, customCategories, categoryOrder, preferences, nextId,
                         now, alias>>
  ELSE UNCHANGED <<dbVars, lsVars, memVars, nextId, now, backupData, alias>>

deleteProduct(barcode) ==
  /\ dbProducts' = {p \in dbProducts : p.barcode # barcode}
  /\ products' = SelectSeq(products, LAMBDA p : p.barcode # barcode)
  /\ alias' = [alias EXCEPT !.products = FALSE]
  /\ UNCHANGED <<dbLists, dbItems, dbCategories, dbPreferences, lsVars, lists, items,
                 customCategories, categoryOrder, preferences, nextId, now, backupData>>

CacheBarcodes == {<<"8","7","1">>, <<"8","7","2">>}
CacheNames == {"Oat milk", "Oat drink"}

\* hist.saved keeps, per barcode, what the last saveProduct gave, until a delete
CacheProduct ==
  /\ EntryMay
  /\ \E barcode \in CacheBarcodes, name \in CacheNames,
        category \in PreferenceCategories :
       /\ saveProduct(barcode, name, category)
       /\ hist' = [hist EXCEPT
                     !.saved = Put(@, barcode, [name |-> name, category |-> category])]
  /\ ops' = ops + 1
  /\ UNCHANGED <<file, imp, validation, reloads, saves, scanner>>

TouchProduct ==
  /\ EntryMay
  /\ \E barcode \in CacheBarcodes : updateLastUsed(barcode)
  /\ ops' = ops + 1
  /\ UserFrame

LookUpProduct ==
  /\ EntryMay
  /\ \E barcode \in CacheBarcodes : getProductByBarcode(barcode)
  /\ ops' = ops + 1
  /\ UserFrame

LoadProducts ==
  /\ EntryMay
  /\ loadProducts
  /\ ops' = ops + 1
  /\ UserFrame

DeleteProduct ==
  /\ EntryMay
  /\ \E barcode \in CacheBarcodes :
       /\ deleteProduct(barcode)
       /\ hist' = [hist EXCEPT !.saved = Remove(@, barcode)]
  /\ ops' = ops + 1
  /\ UNCHANGED <<file, imp, validation, reloads, saves, scanner>>

NextCache ==
  \/ CacheProduct
  \/ TouchProduct
  \/ LookUpProduct
  \/ LoadProducts
  \/ DeleteProduct
  \/ Reload

SpecCache == Init /\ [][NextCache]_vars

(***************************************************************************)
(* C19. After any sequence of saveProduct, updateLastUsed,                 *)
(* getProductByBarcode, loadProducts and deleteProduct calls, the          *)
(* persisted cache and the in-memory list each hold at most one product    *)
(* per barcode, and a barcode that was saved and not deleted since has the *)
(* name and category of the last saveProduct.                              *)
(***************************************************************************)
OnePerBarcode(s) ==
  \A i, j \in 1..Len(s) : s[i].barcode = s[j].barcode => i = j

AsLastSaved(p) ==
  p.barcode \in DOMAIN hist.saved
    => p.name = hist.saved[p.barcode].name
       /\ p.category = hist.saved[p.barcode].category

C19_BarcodeIsKey ==
  /\ \A p, q \in dbProducts : p.barcode = q.barcode => p = q
  /\ OnePerBarcode(products)
  /\ \A barcode \in DOMAIN hist.saved : HasBarcode(dbProducts, barcode)
  /\ \A p \in dbProducts : AsLastSaved(p)
  /\ \A p \in Range(products) : AsLastSaved(p)

\* two barcodes are stored and, after a reload, the list holds one of them again,
\* once and as it was last saved
C19_SavedAgainAndFound ==
  /\ reloads > 0 /\ ops >= 4
  /\ \E p \in Range(products) :
       /\ p.barcode \in DOMAIN hist.saved
       /\ p \in dbProducts
  /\ Len(products) = 1 /\ Cardinality(dbProducts) = 2

(***************************************************************************)
(* saveProduct calls in flight.  A call builds newProduct and hands it to  *)
(* productsDB.save; the put is applied; then the call resumes after the    *)
(* await and updates the local list.  The steps of several calls           *)
(* interleave in any order.                                                *)
(***************************************************************************)
MaxSaves == 3      \* saveProduct calls begun in one behaviour

SaveBarcodes == {<<"8","7","1">>, <<"8","7","2">>, <<"8","7","3">>}

\* one product for every call: that of the call begun last
LastBegun(i) == saves[Len(saves)].newProduct

\* const newProduct of the i-th call
NewProductOf(i) == saves[i].newProduct

SaveFrame ==
  UNCHANGED <<dbLists, dbItems, dbCategories, dbPreferences, lsVars, lists, items,
              customCategories, categoryOrder, preferences, nextId, now, alias, file,
              imp, validation, hist, ops, reloads, scanner>>

\* saveProduct is called: newProduct is built and productsDB.save(newProduct) awaited
BeginSave ==
  /\ imp.pc \in Quiet /\ hist.n = 0
  /\ Len(saves) < MaxSaves
  /\ \E barcode \in SaveBarcodes, name \in CacheNames, category \in ItemCategories :
       saves' = Append(saves, [pc |-> "put",
                               newProduct |-> NewProduct(barcode, name, category)])
  /\ UNCHANGED <<dbProducts, products, backupData>>
  /\ SaveFrame

\* db.products.put(product) of the i-th call is applied
PutApplied ==
  \E i \in 1..Len(saves) :
    /\ saves[i].pc = "put"
    /\ dbProducts' = {p \in dbProducts : p.barcode # NewProductOf(i).barcode}
                       \cup {NewProductOf(i)}
    /\ saves' = [saves EXCEPT ![i].pc = "resume"]
    /\ UNCHANGED <<products, backupData>>
    /\ SaveFrame

\* the i-th call resumes after the await: findIndex, then replace or push
SaveResumed ==
  \E i \in 1..Len(saves) :
    /\ saves[i].pc = "resume"
    /\ products' = Upserted(products, NewProductOf(i))
    /\ backupData' = IF alias.products THEN [backupData EXCEPT !.products = products']
                     ELSE backupData
    /\ saves' = [saves EXCEPT ![i].pc = "resolved"]
    /\ UNCHANGED dbProducts
    /\ SaveFrame

\* a product saved before the concurrent calls begin
SavedBefore == saves = <<>> /\ SaveProduct

NextSaves ==
  \/ SavedBefore
  \/ BeginSave
  \/ PutApplied
  \/ SaveResumed

SpecSaves == Init /\ [][NextSaves]_vars

(***************************************************************************)
(* C20. For every interleaving of the steps of concurrent saveProduct      *)
(* calls for different barcodes, once all calls have resolved the          *)
(* persisted cache and the in-memory list each contain every saved barcode *)
(* exactly once, with the name and category given to its own call.         *)
(***************************************************************************)
AllResolved ==
  saves # <<>> /\ \A i \in 1..Len(saves) : saves[i].pc = "resolved"

DifferentBarcodes ==
  \A i, j \in 1..Len(saves) :
    saves[i].newProduct.barcode = saves[j].newProduct.barcode => i = j

HeldOnceAsGiven(given) ==
  /\ {p \in dbProducts : p.barcode = given.barcode} = {given}
  /\ Cardinality({k \in 1..Len(products) : products[k].barcode = given.barcode}) = 1
  /\ \E k \in 1..Len(products) : products[k] = given

C20_ConcurrentSavesKeepAll ==
  (AllResolved /\ DifferentBarcodes)
    => \A i \in 1..Len(saves) : HeldOnceAsGiven(saves[i].newProduct)

\* three calls for three barcodes have resolved in another order than they began
C20_ResolvedOutOfOrder ==
  /\ AllResolved /\ DifferentBarcodes /\ Len(saves) = MaxSaves
  /\ Len(products) = MaxSaves
  /\ products[1].barcode = saves[3].newProduct.barcode
  /\ products[3].barcode = saves[1].newProduct.barcode

(***************************************************************************)
(* C27. validateBackup is total: for every candidate (null, a value that   *)
(* is not an object, an object whose fields have any type, a version that  *)
(* is not a string among them) it returns a result and never throws.       *)
(***************************************************************************)
C27_ValidateIsTotal ==
  validation.calls > 0 => ~validation.threw

\* it does return for every candidate whose version is a string or falsy
ValidateReturnsForStringVersions ==
  (validation.calls > 0
   /\ (validation.data.kind # "object"
       \/ validation.data.version.type = "string"
       \/ ~Truthy(validation.data.version)))
    => ~validation.threw

(***************************************************************************)
(* Lists and items as the list views drive them: updating an item,         *)
(* duplicating and deleting a list.                                        *)
(***************************************************************************)
\* Object.assign(item, updates) / db.items.update(id, updates)
Assigned(item, updates) ==
  [f \in DOMAIN item |-> IF f \in DOMAIN updates THEN updates[f] ELSE item[f]]

AssignedIn(s, id, updates) ==
  [i \in 1..Len(s) |-> IF s[i].id = id THEN Assigned(s[i], updates) ELSE s[i]]

updateItem(listId, id, updates) ==
  /\ dbItems' = {IF it.id = id THEN Assigned(it, updates) ELSE it : it \in dbItems}
  /\ items' = IF listId \in DOMAIN items
              THEN Put(items, listId, AssignedIn(items[listId], id, updates))
              ELSE items
  /\ backupData' = IF id \in alias.itemObjs
                   THEN [backupData EXCEPT !.items = AssignedIn(@, id, updates)]
                   ELSE backupData
  /\ UNCHANGED <<dbLists, dbCategories, dbProducts, dbPreferences, lsVars, lists,
                 customCategories, categoryOrder, products, preferences, nextId, now,
                 alias>>

\* `${original.name} (copy)`
CopyName(name) == name \o <<" ","(","c","o","p","y",")">>

\* the copies of the items of a list, in the order they are read
CopiedItems(id, newListId) ==
  LET originals == ItemsOfList(id)
  IN [i \in 1..Len(originals) |->
        [originals[i] EXCEPT !.id = newListId + i, !.listId = newListId,
                             !.completed = FALSE, !.completedAt = FALSE]]

\* useListsDB.duplicate, then lists.value.push(newList)
duplicateList(id) ==
  LET original == CHOOSE l \in dbLists : l.id = id
      newList == NewList(nextId, CopyName(original.name), original.color)
      newItems == CopiedItems(id, nextId)
  IN /\ dbLists' = dbLists \cup {newList}
     /\ dbItems' = dbItems \cup Range(newItems)
     /\ lists' = Append(lists, newList)
     /\ nextId' = nextId + 1 + Len(newItems)
     /\ backupData' = IF alias.lists THEN [backupData EXCEPT !.lists = lists']
                      ELSE backupData
     /\ alias' = IF alias.lists THEN [alias EXCEPT !.listObjs = @ \cup {newList.id}]
                 ELSE alias
     /\ UNCHANGED <<dbCategories, dbProducts, dbPreferences, lsVars, items,
                    customCategories, categoryOrder, products, preferences, now>>

ItemUpdates ==
  {[completed |-> TRUE], [category |-> Dairy], [quantity |-> 2]}

UpdateItem ==
  /\ EntryMay
  /\ \E listId \in DOMAIN items, updates \in ItemUpdates :
       \E item \in Range(items[listId]) : updateItem(listId, item.id, updates)
  /\ ops' = ops + 1
  /\ UserFrame

DuplicateList ==
  /\ EntryMay
  /\ \E list \in Range(lists) :
       /\ nextId + 1 + Len(ItemsOfList(list.id)) <= MaxId + 1
       /\ duplicateList(list.id)
  /\ ops' = ops + 1
  /\ UserFrame

\* hist.deleted keeps the list deleted last and how many items it had
DeleteList ==
  /\ EntryMay
  /\ \E list \in Range(lists) :
       /\ deleteList(list.id)
       /\ hist' = [hist EXCEPT
                     !.deleted = [n |-> @.n + 1, id |-> list.id,
                                  items |-> Len(ItemsOfList(list.id))]]
  /\ ops' = ops + 1
  /\ UNCHANGED <<file, imp, validation, reloads, saves, scanner>>

NextLists ==
  \/ CreateList
  \/ AddItem
  \/ UpdateItem
  \/ ToggleItemComplete
  \/ DuplicateList
  \/ DeleteList

SpecLists == Init /\ [][NextLists]_vars

(***************************************************************************)
(* C23. After any sequence of createItem, updateItem, toggleItemComplete,  *)
(* duplicateList and importBackup, every item has completedAt set if and   *)
(* only if its completed flag is true, in the persisted record and in the  *)
(* in-memory copy.                                                         *)
(***************************************************************************)
CompletedAtIffCompleted(it) == it.completedAt <=> it.completed

C23_CompletedAtIffCompleted ==
  /\ \A it \in dbItems : CompletedAtIffCompleted(it)
  /\ \A l \in DOMAIN items : \A it \in Range(items[l]) : CompletedAtIffCompleted(it)

(***************************************************************************)
(* C24. After deleteList(id) completes the list is gone, no persisted item *)
(* has listId = id, and every other list and every item of another list is *)
(* as it was.                                                              *)
(***************************************************************************)
C24_DeleteCascadesToOwnItems ==
  [][hist'.deleted.n # hist.deleted.n =>
       LET id == hist'.deleted.id
       IN /\ \A l \in dbLists' : l.id # id
          /\ \A l \in Range(lists') : l.id # id
          /\ \A it \in dbItems' : it.listId # id
          /\ \A l \in dbLists : l.id # id => l \in dbLists'
          /\ dbLists' \subseteq dbLists
          /\ \A it \in dbItems : it.listId # id => it \in dbItems'
          /\ dbItems' \subseteq dbItems
          /\ \E keep \in [1..Len(lists') -> 1..Len(lists)] :
               /\ \A i \in 1..Len(lists') : lists'[i] = lists[keep[i]]
               /\ \A i, j \in 1..Len(lists') : i < j => keep[i] < keep[j]
               /\ \A k \in 1..Len(lists) :
                    lists[k].id # id => \E i \in 1..Len(lists') : keep[i] = k
          /\ \A l \in DOMAIN items \ {id} :
               l \in DOMAIN items' /\ items'[l] = items[l]]_vars

\* a list with items was deleted and another list still has its items
C24_DeletedListWithItems ==
  /\ hist.deleted.n > 0 /\ hist.deleted.items > 0
  /\ \A it \in dbItems : it.listId # hist.deleted.id
  /\ \E l \in dbLists : \E it \in dbItems : it.listId = l.id

(***************************************************************************)
(* The category order (stores/categories: allCategories, sortedCategories, *)
(* resetCategoryOrder).                                                    *)
(***************************************************************************)
allCategories == DEFAULT_CATEGORIES \o customCategories

\* new Map(categoryOrder.map((id, index) => [id, index])): a later entry of
\* the same id replaces the earlier one
orderMap ==
  [id \in Range(categoryOrder) |->
     Max({i \in 1..Len(categoryOrder) : categoryOrder[i] = id}) - 1]

\* a comparison key that puts the categories the list does not name first
OrderOfAbsentFirst(c) == IF c.id \in DOMAIN orderMap THEN orderMap[c.id] ELSE -1

\* orderMap.get(c.id) ?? 9999
OrderOf(c) == IF c.id \in DOMAIN orderMap THEN orderMap[c.id] ELSE 9999

\* Array.prototype.sort((a, b) => key(a) - key(b)), which is stable
RECURSIVE InsertByKey(_, _, _)
InsertByKey(c, s, key) ==
  IF s = <<>> THEN <<c>>
  ELSE IF key[c.id] < key[Head(s).id] THEN <<c>> \o s
  ELSE <<Head(s)>> \o InsertByKey(c, Tail(s), key)

RECURSIVE SortByKey(_, _)
SortByKey(s, key) ==
  IF s = <<>> THEN <<>>
  ELSE InsertByKey(s[Len(s)], SortByKey(SubSeq(s, 1, Len(s) - 1), key), key)

sortedCategories ==
  IF Len(categoryOrder) = 0
  THEN SortByKey(allCategories, [id \in {c.id : c \in Range(allCategories)} |->
                   (CHOOSE c \in Range(allCategories) : c.id = id).sortOrder])
  ELSE SortByKey(allCategories, [id \in {c.id : c \in Range(allCategories)} |->
                   OrderOf(CHOOSE c \in Range(allCategories) : c.id = id)])

resetCategoryOrder ==
  /\ categoryOrder' = <<>>
  /\ lsCategoryOrder' = [present |-> FALSE, value |-> <<>>]
  /\ UNCHANGED <<dbVars, lsCategoryPreferences, lists, items, customCategories,
                 products, preferences, nextId, now, backupData, alias>>

\* the ids an order list may hold: built-in ones, a custom one, and one of a
\* category that no longer exists
OrderIds ==
  {Bakery, Dairy, Other, NewCategoryId(<<"P","e","t">>, 0), <<"g","o","n","e">>}

\* order lists of one to three different ids
OrderLists ==
  {o \in UNION {[1..n -> OrderIds] : n \in 1..3} :
     \A i, j \in 1..Len(o) : i # j => o[i] # o[j]}

DeleteCategory ==
  /\ UserMay
  /\ \E c \in Range(customCategories) : deleteCategory(c.id)
  /\ ops' = ops + 1
  /\ UserFrame

ReorderCategories ==
  /\ UserMay
  /\ \E newOrder \in OrderLists : saveCategoryOrder(newOrder)
  /\ ops' = ops + 1
  /\ UserFrame

ResetCategoryOrder ==
  /\ UserMay
  /\ resetCategoryOrder
  /\ ops' = ops + 1
  /\ UserFrame

NextOrder ==
  \/ CreateCategory
  \/ DeleteCategory
  \/ ReorderCategories
  \/ ResetCategoryOrder
  \/ Reload
  \/ AppMounted

SpecOrder == Init /\ [][NextOrder]_vars

(***************************************************************************)
(* C25. sortedCategories is always a permutation of the built-in and       *)
(* custom categories; when the category order list is empty it is ordered  *)
(* by sortOrder, and otherwise the categories whose ids are in the order   *)
(* list come first, in the list's order, followed by all categories absent *)
(* from the list in their relative default order.                          *)
(***************************************************************************)
CategoryIds == {c.id : c \in Range(DEFAULT_CATEGORIES)} \cup
               {c.id : c \in Range(customCategories)}

Position(id) == CHOOSE i \in 1..Len(categoryOrder) : categoryOrder[i] = id

IsPermutation(s) ==
  /\ Len(s) = Len(DEFAULT_CATEGORIES) + Len(customCategories)
  /\ \A c \in Range(DEFAULT_CATEGORIES) : c \in Range(s)
  /\ \A c \in Range(customCategories) : c \in Range(s)

InOrder(a, b) ==
  IF categoryOrder = <<>> THEN a.sortOrder <= b.sortOrder
  ELSE IF a.id \in Range(categoryOrder)
       THEN b.id \in Range(categoryOrder) => Position(a.id) < Position(b.id)
       ELSE b.id \notin Range(categoryOrder) /\ a.sortOrder <= b.sortOrder

C25_SortedCategoriesOrder ==
  LET s == sortedCategories
  IN /\ IsPermutation(s)
     /\ \A i, j \in 1..Len(s) : i < j => InOrder(s[i], s[j])

\* a stored order names a custom category before a built-in one and leaves
\* another custom category out
C25_PartialOrderWithCustom ==
  /\ Len(customCategories) = 2
  /\ Len(categoryOrder) = 2
  /\ categoryOrder[1] = customCategories[1].id
  /\ categoryOrder[2] = Other
  /\ sortedCategories[1] = customCategories[1]
  /\ sortedCategories[Len(sortedCategories)] = customCategories[2]

(***************************************************************************)
(* Segmentation as a function of the text: the texts are one to three      *)
(* tokens with single spaces between them, as typed or with a space after  *)
(* the last token.                                                         *)
(***************************************************************************)
MaxTokens == 3

Tokens ==
  {<<"u","h">>, <<"u","m">>, <<"a">>, <<"d","o","z","e","n">>, <<"m","i","l","k">>,
   <<"a","d","d">>, <<"a","n","d">>, <<"2"," ","c","a","n","s"," ","o","f">>, <<",">>}

RECURSIVE Spaced(_)
Spaced(tokens) ==
  IF Len(tokens) = 1 THEN tokens[1]
  ELSE tokens[1] \o <<" ">> \o Spaced(Tail(tokens))

SegmentTexts ==
  {Spaced(tokens) \o tail :
     tokens \in UNION {[1..n -> Tokens] : n \in 1..MaxTokens}, tail \in {<<>>, <<" ">>}}

\* hist.parsed keeps the text and the items parseItemsFromText made of it
Segment ==
  /\ imp.pc \in Quiet /\ hist.parsed.n = 0
  /\ \E input \in SegmentTexts :
       hist' = [hist EXCEPT
                 !.parsed = [n |-> 1, input |-> input,
                             items |-> parseItemsFromText(input)]]
  /\ UNCHANGED <<dbVars, lsVars, memVars, nextId, now, backupData, alias, file, imp,
                 validation, ops, reloads, saves, scanner>>

NextSegment == Segment

SpecSegment == Init /\ [][NextSegment]_vars

(***************************************************************************)
(* C26. Segmentation never discards the only candidate: for every input    *)
(* that is not empty or whitespace-only and contains no separator (comma,  *)
(* newline, or the word "and" between whitespace), parseItemsFromText      *)
(* returns exactly one item; for an input made only of filler words that   *)
(* item equals the trimmed input.                                          *)
(***************************************************************************)
HasSeparator(s) ==
  \/ \E i \in 1..Len(s) : s[i] \in {",", "\n"}
  \/ \E i \in 2..(Len(s) - 4) :
       /\ IsSpace(s[i - 1])
       /\ ToLowerCase(SubSeq(s, i, i + 2)) = <<"a","n","d">>
       /\ IsSpace(s[i + 3])

FillerWords == {<<"u","h">>, <<"u","m">>}

OnlyFiller(s) ==
  \E n \in 1..MaxTokens : \E tokens \in [1..n -> FillerWords] : Trim(s) = Spaced(tokens)

C26_OneItemWithoutSeparator ==
  (hist.parsed.n > 0 /\ Trim(hist.parsed.input) # <<>> /\ ~HasSeparator(hist.parsed.input))
    => /\ Len(hist.parsed.items) = 1
       /\ OnlyFiller(hist.parsed.input) => hist.parsed.items[1] = Trim(hist.parsed.input)

(***************************************************************************)
(* C28. importBackup terminates for every valid snapshot with finitely     *)
(* many entries and creates exactly one list per snapshot list and one     *)
(* custom category per snapshot custom category; this includes the case    *)
(* where the snapshot is the object just returned by exportBackup on a     *)
(* store with at least one list or custom category and merge=true.  As a   *)
(* statement about every step of an import: the lists and categories       *)
(* created so far never outnumber those the snapshot held when importBackup*)
(* was called, and a finished import has created exactly as many.          *)
(***************************************************************************)
C28_OneCreatedPerSnapshotEntry ==
  hist.n > 0 =>
    /\ Len(hist.newLists) <= Len(hist.cur.lists)
    /\ hist.newCategories <= Len(hist.cur.customCategories)
    /\ imp.pc = "done" =>
         /\ Len(hist.newLists) = Len(hist.cur.lists)
         /\ hist.newCategories = Len(hist.cur.customCategories)

(***************************************************************************)
(* Items filed under any category of the picker, custom ones included, and *)
(* backup files made and imported in the same page.                        *)
(***************************************************************************)
CreateItemInCategory ==
  /\ UserMay /\ nextId <= MaxId
  /\ \E list \in Range(lists), name \in ItemNames,
        category \in ItemCategories \cup {c.id : c \in Range(customCategories)} :
       createItem(list.id, name, category, 1)
  /\ ops' = ops + 1
  /\ UserFrame

NextRefs ==
  \/ CreateList
  \/ CreateCategory
  \/ CreateItemInCategory
  \/ DownloadBackup
  \/ ImportFile
  \/ ImportSeed
  \/ ImportStep

SpecRefs == Init /\ [][NextRefs]_vars

(***************************************************************************)
(* C30. Import keeps category references intact: after a replace import of *)
(* a snapshot in which every item's category is a built-in category id or  *)
(* the id of one of the snapshot's custom categories, every restored       *)
(* item's category is a built-in id or the id of a custom category that    *)
(* exists in the store.                                                    *)
(***************************************************************************)
BuiltInIds == {c.id : c \in Range(DEFAULT_CATEGORIES)}

ReferencesIntact(d) ==
  \A it \in Range(d.items) :
    it.category \in BuiltInIds \cup {c.id : c \in Range(d.customCategories)}

C30_ReplaceKeepsCategoryReferences ==
  (imp.pc = "done" /\ ~imp.merge /\ ReferencesIntact(hist.cur))
    => \A it \in dbItems :
         it.listId \in Range(hist.newLists)
           => /\ it.category \in BuiltInIds \cup {c.id : c \in dbCategories}
              /\ it.category \in BuiltInIds \cup {c.id : c \in Range(customCategories)}

(***************************************************************************)
(* Scanning in the list view (ListDetailView: onMounted, handleScan,       *)
(* handleManualEntry) with its BarcodeScannerModal.  A scan is handled in  *)
(* one step, from the modal's handleScan to the end of the view's.         *)
(***************************************************************************)
\* onMounted: loadLists() if none is loaded, loadItems(listId),
\* loadCustomCategories(), loadProducts(); the modal is mounted with the view
listViewMounted(listId) ==
  /\ scanner' = [ClosedScanner EXCEPT !.listId = listId]
  /\ lists' = IF lists = <<>> THEN ToArrayById(dbLists) ELSE lists
  /\ items' = Put(items, listId, ItemsOfList(listId))
  /\ customCategories' = LoadedCategories
  /\ categoryOrder' = LoadedCategoryOrder
  /\ products' = ToArrayByBarcode(dbProducts)
  /\ alias' = [alias EXCEPT
                 !.lists = IF lists = <<>> THEN FALSE ELSE @,
                 !.listObjs = IF lists = <<>> THEN {} ELSE @,
                 !.itemObjs =
                   @ \ {it.id : it \in {x \in Range(backupData.items) : x.listId = listId}},
                 !.customCategories = FALSE, !.products = FALSE]
  /\ UNCHANGED <<dbVars, lsVars, preferences, nextId, now, backupData>>

\* the product's category when no preference overrides it
StoredCategory(preferredCategory, product) == product.category

\* preferredCategory || product.category
CategoryToUse(preferredCategory, product) ==
  IF preferredCategory # Null THEN preferredCategory ELSE product.category

IsKnown(barcode) == HasBarcode(Range(products), barcode) \/ HasBarcode(dbProducts, barcode)

\* the product as the handler leaves it: updateLastUsed saves it as it is, and
\* saveProduct saves it under the preference when that differs
ScannedProduct(product, preferredCategory) ==
  IF preferredCategory # Null /\ preferredCategory # product.category
  THEN NewProduct(product.barcode, product.name, preferredCategory)
  ELSE product

\* the modal's handleScan, then the view's: a known product goes on the list and
\* the scanner closes, an unknown barcode makes the modal show its error state
handleScan(barcode) ==
  IF IsKnown(barcode)
  THEN LET product == LookedUp(barcode)
           preferredCategory == getPreferredCategory(product.name)
           item == NewItem(nextId, scanner.listId, product.name,
                           CategoryToUse(preferredCategory, product), 1)
           saved == ScannedProduct(product, preferredCategory)
           found == IF HasBarcode(Range(products), barcode) THEN products
                    ELSE Append(products, product)
       IN /\ dbItems' = dbItems \cup {item}
          /\ items' = Put(items, scanner.listId,
                          Append(GetOrEmpty(items, scanner.listId), item))
          /\ nextId' = nextId + 1
          /\ dbProducts' = {p \in dbProducts : p.barcode # barcode} \cup {saved}
          /\ products' = Upserted(found, saved)
          /\ backupData' = IF alias.products
                           THEN [backupData EXCEPT !.products = products']
                           ELSE backupData
          /\ scanner' = [scanner EXCEPT !.barcodeNotRecognized = FALSE,
                                        !.lastScannedBarcode = barcode,
                                        !.showScanner = FALSE]
          /\ UNCHANGED <<dbLists, dbCategories, dbPreferences, lsVars, lists,
                         customCategories, categoryOrder, preferences, now, alias>>
  ELSE /\ scanner' = [scanner EXCEPT !.barcodeNotRecognized = TRUE,
                                     !.lastScannedBarcode = barcode]
       /\ UNCHANGED <<dbVars, lsVars, memVars, nextId, now, backupData, alias>>

\* a product saved without the category that was entered
ManualProductUncategorized(barcode, sanitized, category) ==
  NewProduct(barcode, sanitized, Other)

\* { barcode: lastBarcode, name: sanitized, category }
ManualProduct(barcode, sanitized, category) == NewProduct(barcode, sanitized, category)

\* the modal's handleManualEntry emits the trimmed name and closes; the view's
\* creates the item and, with a last scanned barcode, saves the product
handleManualEntry(manualName, manualCategory) ==
  LET sanitized == sanitizeItemName(Trim(manualName))
      item == NewItem(nextId, scanner.listId, sanitized, manualCategory, 1)
      lastBarcode == scanner.lastScannedBarcode
      newProduct == ManualProduct(lastBarcode, sanitized, manualCategory)
  IN /\ dbItems' = dbItems \cup {item}
     /\ items' = Put(items, scanner.listId,
                     Append(GetOrEmpty(items, scanner.listId), item))
     /\ nextId' = nextId + 1
     /\ dbProducts' = IF lastBarcode # Null
                      THEN {p \in dbProducts : p.barcode # lastBarcode} \cup {newProduct}
                      ELSE dbProducts
     /\ products' = IF lastBarcode # Null THEN Upserted(products, newProduct)
                    ELSE products
     /\ backupData' = IF alias.products
                      THEN [backupData EXCEPT !.products = products']
                      ELSE backupData
     /\ scanner' = [scanner EXCEPT !.showManualEntry = FALSE, !.showScanner = FALSE]
     /\ UNCHANGED <<dbLists, dbCategories, dbPreferences, lsVars, lists,
                    customCategories, categoryOrder, preferences, now, alias>>

ScanBarcodes == {<<"8","7","1">>, <<"8","7","2">>}
ManualNames == {<<"M","i","l","k">>, <<"O","a","t"," "," ","m","i","l","k">>}

ScanFrame == UNCHANGED <<file, imp, validation, reloads, saves>>
StoresFrame == UNCHANGED <<dbVars, lsVars, memVars, nextId, now, backupData, alias>>

ViewList ==
  /\ imp.pc \in Quiet /\ hist.n = 0
  /\ \E l \in dbLists : l.id # scanner.listId /\ listViewMounted(l.id)
  /\ UNCHANGED <<hist, ops>>
  /\ ScanFrame

\* the Scan button: showScanner = true; the modal's watch hides the manual form
\* and initializeScanner clears the error state
OpenScanner ==
  /\ scanner.listId # 0 /\ ~scanner.showScanner
  /\ scanner' = [scanner EXCEPT !.showScanner = TRUE, !.showManualEntry = FALSE,
                                !.barcodeNotRecognized = FALSE]
  /\ StoresFrame /\ ScanFrame /\ UNCHANGED <<hist, ops>>

\* Cancel, or the dialog closing
CloseScanner ==
  /\ scanner.showScanner
  /\ scanner' = [scanner EXCEPT !.showScanner = FALSE]
  /\ StoresFrame /\ ScanFrame /\ UNCHANGED <<hist, ops>>

\* the camera reads a barcode while the modal is scanning
Scan ==
  /\ EntryMay /\ nextId <= MaxId
  /\ scanner.showScanner /\ ~scanner.barcodeNotRecognized /\ ~scanner.showManualEntry
  /\ \E barcode \in ScanBarcodes :
       /\ handleScan(barcode)
       /\ hist' = [hist EXCEPT
                     !.scan = [n |-> @.n + 1, barcode |-> barcode],
                     !.recognized = IF IsKnown(barcode) THEN @ \cup {barcode} ELSE @]
  /\ ops' = ops + 1
  /\ ScanFrame

\* Scan Again (handleTryAgain)
TryAgain ==
  /\ scanner.showScanner /\ scanner.barcodeNotRecognized /\ ~scanner.showManualEntry
  /\ scanner' = [scanner EXCEPT !.barcodeNotRecognized = FALSE,
                                !.lastScannedBarcode = Null]
  /\ StoresFrame /\ ScanFrame /\ UNCHANGED <<hist, ops>>

\* Enter Manually, in the error state or in the dialog's actions
EnterManually ==
  /\ scanner.showScanner /\ ~scanner.showManualEntry
  /\ scanner' = [scanner EXCEPT !.showManualEntry = TRUE]
  /\ StoresFrame /\ ScanFrame /\ UNCHANGED <<hist, ops>>

\* Back, in the manual form
BackToScanner ==
  /\ scanner.showScanner /\ scanner.showManualEntry
  /\ scanner' = [scanner EXCEPT !.showManualEntry = FALSE]
  /\ StoresFrame /\ ScanFrame /\ UNCHANGED <<hist, ops>>

\* Add Product, in the manual form
SubmitManualEntry ==
  /\ EntryMay /\ nextId <= MaxId
  /\ scanner.showScanner /\ scanner.showManualEntry
  /\ \E manualName \in ManualNames, manualCategory \in PreferenceCategories :
       /\ handleManualEntry(manualName, manualCategory)
       /\ hist' = [hist EXCEPT !.manual = [n |-> @.n + 1, name |-> manualName,
                                           category |-> manualCategory]]
  /\ ops' = ops + 1
  /\ ScanFrame

NextScan ==
  \/ CreateList
  \/ SavePreference
  \/ ViewList
  \/ OpenScanner
  \/ CloseScanner
  \/ Scan
  \/ TryAgain
  \/ EnterManually
  \/ BackToScanner
  \/ SubmitManualEntry

SpecScan == Init /\ [][NextScan]_vars

(***************************************************************************)
(* C21. On a scan of a barcode that is in the product cache, exactly one   *)
(* item named after the product is added to the current list; if a         *)
(* preference exists for the product's name, the item gets the preferred   *)
(* category and, once the scan handler finishes, the cached product's      *)
(* category equals that preference; if no preference exists, the item gets *)
(* the product's stored category.                                          *)
(***************************************************************************)
InCache(barcode) == \E p \in dbProducts \cup Range(products) : p.barcode = barcode

Cached(barcode) ==
  IF \E i \in 1..Len(products) : products[i].barcode = barcode
  THEN products[CHOOSE i \in 1..Len(products) : products[i].barcode = barcode]
  ELSE CHOOSE p \in dbProducts : p.barcode = barcode

ScanOfKnown == hist'.scan.n # hist.scan.n /\ InCache(hist'.scan.barcode)

C21_KnownScanAddsItem ==
  [][ScanOfKnown =>
       LET product == Cached(hist'.scan.barcode)
           key == Normal(product.name)
           added == dbItems' \ dbItems
       IN /\ Cardinality(added) = 1
          /\ \A it \in added :
               /\ it.name = product.name
               /\ it.listId = scanner.listId
               /\ it \in Range(items'[scanner.listId])
               /\ it.category = IF key \in DOMAIN preferences THEN preferences[key]
                                ELSE product.category
          /\ Len(items'[scanner.listId]) = Len(items[scanner.listId]) + 1
          /\ key \in DOMAIN preferences =>
               /\ \E p \in dbProducts' : p.barcode = product.barcode
               /\ \A p \in dbProducts' \cup Range(products') :
                    p.barcode = product.barcode => p.category = preferences[key]]_vars

\* a product entered under one category was scanned after the user had learned
\* another for its name: the item and the product now have the preference
C21_ScannedUnderPreference ==
  /\ hist.scan.barcode \in hist.recognized
  /\ scanner.lastScannedBarcode = hist.scan.barcode /\ ~scanner.showScanner
  /\ hist.manual.n = 1
  /\ \E p \in dbProducts :
       /\ p.barcode = hist.scan.barcode
       /\ Normal(p.name) \in DOMAIN preferences
       /\ p.category = preferences[Normal(p.name)]
       /\ p.category # hist.manual.category
       /\ \E it \in dbItems : it.name = p.name /\ it.category = p.category

(***************************************************************************)
(* C22. On a scan of a barcode that is not in the product cache, no item   *)
(* is created and no product is saved by the scan itself; when the user    *)
(* then completes manual entry with a name and category, one item is       *)
(* created and the cache afterwards maps that scanned barcode to the       *)
(* entered name and category.                                              *)
(***************************************************************************)
ScanOfUnknown == hist'.scan.n # hist.scan.n /\ ~InCache(hist'.scan.barcode)

ManualEntryAfterUnknown ==
  /\ hist'.manual.n # hist.manual.n
  /\ hist.scan.n > 0 /\ ~InCache(hist.scan.barcode)
  /\ scanner.barcodeNotRecognized /\ scanner.lastScannedBarcode = hist.scan.barcode

NothingStored ==
  /\ dbItems' = dbItems /\ items' = items
  /\ dbProducts' = dbProducts /\ products' = products

CacheMaps(barcode, name, category) ==
  /\ \E p \in dbProducts' : p.barcode = barcode
  /\ \E i \in 1..Len(products') : products'[i].barcode = barcode
  /\ \A p \in dbProducts' \cup Range(products') :
       p.barcode = barcode => p.name = name /\ p.category = category

C22_ManualEntryCachesEnteredName ==
  [][/\ ScanOfUnknown => NothingStored
     /\ ManualEntryAfterUnknown =>
          /\ Cardinality(dbItems' \ dbItems) = 1
          /\ CacheMaps(hist.scan.barcode, hist'.manual.name, hist'.manual.category)]_vars

\* C22, as the code has it: the cache maps the scanned barcode to the entered
\* name with its whitespace trimmed and collapsed, the name the item is created
\* under, and to the entered category
C22_ManualEntryCachesSanitizedName ==
  [][/\ ScanOfUnknown => NothingStored
     /\ ManualEntryAfterUnknown =>
          /\ Cardinality(dbItems' \ dbItems) = 1
          /\ \A it \in dbItems' \ dbItems :
               it.name = sanitizeItemName(hist'.manual.name)
          /\ CacheMaps(hist.scan.barcode, sanitizeItemName(hist'.manual.name),
                       hist'.manual.category)]_vars

\* an unknown barcode was scanned and a name with two spaces in a row entered for
\* it: the product has the name with one
C22_EnteredAfterUnknownScan ==
  /\ hist.scan.n = 1 /\ hist.manual.n = 1 /\ hist.recognized = {}
  /\ ~scanner.showScanner
  /\ \E p \in dbProducts :
       /\ p.barcode = hist.scan.barcode
       /\ p.category = hist.manual.category
       /\ p.name # hist.manual.name
       /\ \E it \in dbItems : it.name = p.name

(***************************************************************************)
(* C29. Manual entry writes to the product cache only under a barcode that *)
(* was scanned and not recognized in the current opening of the scanner:   *)
(* over any sequence of opening the scanner, scanning known or unknown     *)
(* barcodes, closing it, pressing Scan Again and submitting manual entry,  *)
(* a manual entry never overwrites the name or category of a product whose *)
(* barcode was recognized.                                                 *)
(***************************************************************************)
C29_ManualEntryKeepsRecognized ==
  [][hist'.manual.n # hist.manual.n =>
       /\ dbProducts' # dbProducts => scanner.barcodeNotRecognized
       /\ \A p \in dbProducts : p.barcode \in hist.recognized => p \in dbProducts'
       /\ \A i \in 1..Len(products) :
            products[i].barcode \in hist.recognized => products'[i] = products[i]]_vars
=============================================================================
